---- MODULE Spec2Model ----
(***************************************************************************)
(* Payment-intent lifecycle of the POS prototype backend                   *)
(* (services/paymentIntent.service.js over the PaymentIntent collection).  *)
(*                                                                         *)
(* Every service call runs in its own worker.  A worker's step is one      *)
(* synchronous stretch of the async function: the JavaScript between two   *)
(* awaits together with the one store request that ends it.  A store       *)
(* request on a single document (insert, findById, findOneAndUpdate, the   *)
(* updateOne behind doc.save()) is atomic; workers interleave between      *)
(* steps, and the clock may advance between any two steps.                 *)
(***************************************************************************)
EXTENDS Integers, Sequences, FiniteSets, TLC

(* ------------------------------ bounds --------------------------------- *)
\* Concurrent workers; a worker that has returned may start another call.
NumProcs == 2
\* Records the store may hold (ObjectIds are modelled as 1..MaxRecords).
MaxRecords == 2
\* Last second the clock reaches.
MaxClock == 2
\* Service calls made in one behaviour.
MaxCalls == 4

(* ------------------------- program constants --------------------------- *)
MsPerSecond == 1000
DEFAULT_EXPIRY_SECONDS == 5 * 60
LIST_CAP == 200
DEMO_MERCHANT_ID == "demo-merchant"
DEFAULT_CURRENCY == "GBP"
\* method ?? 'QR'
DEFAULT_METHOD == "QR"

PENDING == "PENDING"
SUCCEEDED == "SUCCEEDED"
FAILED == "FAILED"
CANCELLED == "CANCELLED"
EXPIRED == "EXPIRED"

PAYMENT_STATUSES == {PENDING, SUCCEEDED, FAILED, CANCELLED, EXPIRED}
TERMINAL_STATUSES == {SUCCEEDED, FAILED, CANCELLED, EXPIRED}

\* An optional JavaScript value: <<>> is undefined, <<v>> is the value v.
None == <<>>
Some(v) == <<v>>

\* a ?? b
Coalesce(a, b) == IF a = None THEN b ELSE a[1]

\* Mutant: truthiness that holds for no value.
TruthyNever(a) == FALSE

\* JavaScript truthiness of an optional string.
Truthy(a) == a # None /\ a[1] # ""

Procs == 1..NumProcs
Ids == 1..MaxRecords

(* ------------------------------ state ---------------------------------- *)
VARIABLES
  store,      \* the PaymentIntent collection: _id -> document
  clock,      \* the wall clock, in milliseconds
  pc,         \* each worker's position in its call
  op,         \* the call a worker is running (or has last run)
  arg,        \* that call's arguments
  now,        \* that call's `const now = new Date()`
  doc,        \* the document a worker holds (doc / updated / existing)
  res,        \* what the call returned or threw
  pre,        \* history: stored status of arg.id when the call started
  confirmed,  \* history: ids for which confirmPaymentIntent has returned a DTO
  wins,       \* history: per id, guarded transitions that returned a DTO
  calls,      \* history: calls started so far
  ui          \* the POS app's payment screen, its requests and the status they meet

vars == <<store, clock, pc, op, arg, now, doc, res, pre, confirmed, wins, calls, ui>>

NoDoc ==
  [_id |-> 0, merchantId |-> "", amount |-> 0, currency |-> "", method |-> "",
   status |-> "", expiresAt |-> 0,
   idempotencyKey |-> None, failureReason |-> None, createdAt |-> 0]

\* `req` is the HTTP request a call came from, when it came through a route.
NoArg ==
  [id |-> 0, amount |-> 0, currency |-> None, method |-> None,
   expiresInSeconds |-> None, idempotencyKey |-> None,
   reason |-> None, limit |-> 0, status |-> None, req |-> None]

NoDto ==
  [id |-> 0, merchantId |-> "", amount |-> 0, currency |-> "", method |-> "",
   status |-> "", failureReason |-> None,
   expiresAt |-> 0, createdAt |-> 0, customerUrl |-> <<>>]

\* toDto: the document's fields plus the derived customerUrl (baseUrl/pay/id).
toDto(d) ==
  [id |-> d._id, merchantId |-> d.merchantId, amount |-> d.amount,
   currency |-> d.currency, method |-> d.method,
   status |-> d.status, failureReason |-> d.failureReason,
   expiresAt |-> d.expiresAt, createdAt |-> d.createdAt,
   customerUrl |-> <<"baseUrl", "/pay/", d._id>>]

\* `swept` is history: the ids the call's updateMany has set to EXPIRED.
NoRes ==
  [kind |-> "none", code |-> "", status |-> "", dto |-> NoDto, items |-> <<>>,
   swept |-> {}]
Returned(d) == [NoRes EXCEPT !.kind = "ok", !.dto = toDto(d)]
ReturnedList(s) == [NoRes EXCEPT !.kind = "list", !.items = s]
\* new AppError(code, message): `status` is the status the message quotes.
AppError(code, status) == [NoRes EXCEPT !.kind = "err", !.code = code, !.status = status]

\* Mutant: a lookup that does not see EXPIRED records.
ExistsUnlessExpired(id) == id \in DOMAIN store /\ store[id].status # EXPIRED

Exists(id) == id \in DOMAIN store
StatusOf(id) == IF Exists(id) THEN store[id].status ELSE "ABSENT"

Free(p) == pc[p] \in {"idle", "done"}

\* The POS app: the New Payment screen's `digits` (a string, as a sequence of
\* characters), the amount `sent` to createPaymentIntent while the call is
\* awaited, and the quick-amount taps so far (history); then the payment
\* screen before it is mounted.  `net` holds the requests in
\* flight, `srv` the status the backend holds for the screen's intent;
\* isTerminal is the value the current polling effect closed over, pollRef the
\* delay of its pending timer (0: none); everTerminal and pollBit are history:
\* a terminal status has been displayed, and a bit that flips with every
\* polling request issued.
NoScreen ==
  [mounted |-> FALSE, intent |-> "none", loading |-> TRUE, errorMsg |-> FALSE,
   acting |-> FALSE, isTerminal |-> FALSE, inFlightRef |-> FALSE, pollRef |-> 0,
   net |-> <<>>, srv |-> PENDING, everTerminal |-> FALSE, pollBit |-> 0,
   digits |-> <<>>, sent |-> None, quickTaps |-> 0]

Init ==
  /\ store = <<>>
  /\ clock = 0
  /\ pc = [p \in Procs |-> "idle"]
  /\ op = [p \in Procs |-> "none"]
  /\ arg = [p \in Procs |-> NoArg]
  /\ now = [p \in Procs |-> 0]
  /\ doc = [p \in Procs |-> NoDoc]
  /\ res = [p \in Procs |-> NoRes]
  /\ pre = [p \in Procs |-> "NA"]
  /\ confirmed = {}
  /\ wins = [i \in Ids |-> 0]
  /\ calls = 0
  /\ ui = NoScreen

\* A worker that is not inside a call starts call `o` with arguments `a`;
\* `r` is the outcome known so far.  MaxCalls bounds the calls of a behaviour.
Start(p, o, a, next, r) ==
  /\ Free(p)
  /\ calls < MaxCalls
  /\ calls' = calls + 1
  /\ pc' = [pc EXCEPT ![p] = next]
  /\ op' = [op EXCEPT ![p] = o]
  /\ arg' = [arg EXCEPT ![p] = a]
  /\ res' = [res EXCEPT ![p] = r]
  /\ pre' = [pre EXCEPT ![p] = IF o \in {"create", "list"} THEN "NA" ELSE StatusOf(a.id)]

Finish(p, r) ==
  /\ pc' = [pc EXCEPT ![p] = "done"]
  /\ res' = [res EXCEPT ![p] = r]

\* Time passes.
Tick ==
  /\ clock < MaxClock * MsPerSecond
  /\ clock' = clock + MsPerSecond
  /\ UNCHANGED <<store, pc, op, arg, now, doc, res, pre, confirmed, wins, calls, ui>>

(* ---------------------------- createPaymentIntent ---------------------- *)
\* Mutant: the document handed to create with a status other than PENDING.
NewDocSucceeded(a, t) ==
  [NoDoc EXCEPT !.merchantId = DEMO_MERCHANT_ID,
                !.amount = a.amount,
                !.currency = Coalesce(a.currency, DEFAULT_CURRENCY),
                !.method = Coalesce(a.method, DEFAULT_METHOD),
                !.status = SUCCEEDED,
                !.expiresAt = t + Coalesce(a.expiresInSeconds, DEFAULT_EXPIRY_SECONDS) * MsPerSecond,
                !.idempotencyKey = a.idempotencyKey]

\* Mutant: expiresAt computed without the default for a missing expiresInSeconds.
NewDocNoDefaultExpiry(a, t) ==
  [NoDoc EXCEPT !.merchantId = DEMO_MERCHANT_ID,
                !.amount = a.amount,
                !.currency = Coalesce(a.currency, DEFAULT_CURRENCY),
                !.method = Coalesce(a.method, DEFAULT_METHOD),
                !.status = PENDING,
                !.expiresAt = t + Coalesce(a.expiresInSeconds, 0) * MsPerSecond,
                !.idempotencyKey = a.idempotencyKey]

\* The document handed to PaymentIntent.create (its _id and createdAt are
\* assigned when it is inserted).
NewDoc(a, t) ==
  [NoDoc EXCEPT !.merchantId = DEMO_MERCHANT_ID,
                !.amount = a.amount,
                !.currency = Coalesce(a.currency, DEFAULT_CURRENCY),
                !.method = Coalesce(a.method, DEFAULT_METHOD),
                !.status = PENDING,
                !.expiresAt = t + Coalesce(a.expiresInSeconds, DEFAULT_EXPIRY_SECONDS) * MsPerSecond,
                !.idempotencyKey = a.idempotencyKey]

\* Mutant: schema validation with min 0.
ValidNonNegative(d) == d.amount >= 0

\* Schema validation run by create(): amount is required with min 1.
Valid(d) == d.amount >= 1

\* Mutant: no unique index on (merchantId, idempotencyKey).
KeyTakenNever(d) ==
  FALSE

\* The partial unique index on (merchantId, idempotencyKey), for string keys.
KeyTaken(d) ==
  /\ d.idempotencyKey # None
  /\ \E i \in DOMAIN store :
       /\ store[i].merchantId = d.merchantId
       /\ store[i].idempotencyKey = d.idempotencyKey

\* const now = new Date(); expiresAt = now + expSeconds * 1000; create(...) is issued.
\* The guard keeps the number of inserts within MaxRecords.
CreateCallWith(p, a) ==
    /\ Len(store) + Cardinality({q \in Procs : pc[q] = "create_insert"}) < MaxRecords
    /\ Start(p, "create", a, "create_insert", NoRes)
    /\ now' = [now EXCEPT ![p] = clock]
    /\ doc' = [doc EXCEPT ![p] = NewDoc(arg'[p], clock)]
    /\ UNCHANGED <<store, clock, ui, confirmed, wins>>

\* A create call that leaves currency and method to their defaults.
CreateCall(p, am, e, k) ==
    CreateCallWith(p, [NoArg EXCEPT !.amount = am, !.expiresInSeconds = e,
                                    !.idempotencyKey = k])

\* PaymentIntent.create: validation, timestamps, then the insert under the
\* unique index.  E11000 with a truthy key goes on to the lookup; any other
\* error is rethrown.
CreateInsert(p) ==
  /\ pc[p] = "create_insert"
  /\ IF ~Valid(doc[p])
       THEN /\ Finish(p, AppError("ValidationError", ""))
            /\ UNCHANGED <<store, doc>>
       ELSE IF KeyTaken(doc[p])
         THEN /\ IF Truthy(arg[p].idempotencyKey)
                   THEN /\ pc' = [pc EXCEPT ![p] = "create_find"]
                        /\ UNCHANGED res
                   ELSE Finish(p, AppError("E11000", ""))
              /\ UNCHANGED <<store, doc>>
         ELSE LET d == [doc[p] EXCEPT !._id = Len(store) + 1, !.createdAt = clock] IN
              /\ store' = Append(store, d)
              /\ doc' = [doc EXCEPT ![p] = d]
              /\ Finish(p, Returned(d))
  /\ UNCHANGED <<clock, ui, op, arg, now, pre, confirmed, wins, calls>>

\* Mutant: a replay that overwrites the stored amount with the request's.
CreateFindExistingOverwrites(p) ==
  /\ pc[p] = "create_find"
  /\ LET found == {i \in DOMAIN store :
                     /\ store[i].merchantId = DEMO_MERCHANT_ID
                     /\ store[i].idempotencyKey = arg[p].idempotencyKey} IN
     IF found = {}
       THEN /\ Finish(p, AppError("E11000", ""))
            /\ UNCHANGED <<doc, store>>
       ELSE \E i \in found :
              /\ store' = [store EXCEPT ![i].amount = arg[p].amount]
              /\ doc' = [doc EXCEPT ![p] = store'[i]]
              /\ Finish(p, Returned(store'[i]))
  /\ UNCHANGED <<clock, ui, op, arg, now, pre, confirmed, wins, calls>>

\* findOne({ merchantId, idempotencyKey }) after the duplicate-key error.
CreateFindExisting(p) ==
  /\ pc[p] = "create_find"
  /\ LET found == {i \in DOMAIN store :
                     /\ store[i].merchantId = DEMO_MERCHANT_ID
                     /\ store[i].idempotencyKey = arg[p].idempotencyKey} IN
     IF found = {}
       THEN /\ Finish(p, AppError("E11000", ""))
            /\ UNCHANGED doc
       ELSE \E i \in found :
              /\ doc' = [doc EXCEPT ![p] = store[i]]
              /\ Finish(p, Returned(store[i]))
  /\ UNCHANGED <<store, clock, ui, op, arg, now, pre, confirmed, wins, calls>>

(* ---------------------------- getPaymentIntentById --------------------- *)
\* findById(id); a missing document throws NOT_FOUND.
GetCall(p, id) ==
  /\ IF Exists(id)
       THEN /\ Start(p, "get", [NoArg EXCEPT !.id = id], "get_check", NoRes)
            /\ doc' = [doc EXCEPT ![p] = store[id]]
       ELSE /\ Start(p, "get", [NoArg EXCEPT !.id = id], "done", AppError("NOT_FOUND", ""))
            /\ doc' = [doc EXCEPT ![p] = NoDoc]
  /\ now' = [now EXCEPT ![p] = 0]
  /\ UNCHANGED <<store, clock, ui, confirmed, wins>>

\* Mutant: the expiry test with < for <=.
NeedsExpiryStrict(d, t) ==
  d.status \notin TERMINAL_STATUSES /\ d.expiresAt < t

\* Mutant: the expiry test without the terminal-status clause.
NeedsExpiryAnyStatus(d, t) ==
  d.expiresAt <= t

\* !TERMINAL_STATUSES.has(doc.status) && doc.expiresAt <= now
NeedsExpiry(d, t) ==
  d.status \notin TERMINAL_STATUSES /\ d.expiresAt <= t

\* Mutant: a get that saves the loaded document whether or not it has expired.
GetCheckAlwaysSaves(p) ==
  /\ pc[p] = "get_check"
  /\ now' = [now EXCEPT ![p] = clock]
  /\ doc' = [doc EXCEPT ![p].status = IF NeedsExpiry(doc[p], clock) THEN EXPIRED ELSE @]
  /\ pc' = [pc EXCEPT ![p] = "get_save"]
  /\ UNCHANGED res
  /\ UNCHANGED <<store, clock, ui, op, arg, pre, confirmed, wins, calls>>

\* const now = new Date(); a non-terminal document past expiresAt is marked
\* EXPIRED in memory and doc.save() is issued, otherwise the DTO is returned.
GetCheck(p) ==
  /\ pc[p] = "get_check"
  /\ now' = [now EXCEPT ![p] = clock]
  /\ IF NeedsExpiry(doc[p], clock)
       THEN /\ doc' = [doc EXCEPT ![p].status = EXPIRED]
            /\ pc' = [pc EXCEPT ![p] = "get_save"]
            /\ UNCHANGED res
       ELSE /\ Finish(p, Returned(doc[p]))
            /\ UNCHANGED doc
  /\ UNCHANGED <<store, clock, ui, op, arg, pre, confirmed, wins, calls>>

\* doc.save(): updateOne({ _id }, { $set: { status: 'EXPIRED' } }) -- only the
\* modified path is written, and the filter holds nothing but the _id.
GetSave(p) ==
  /\ pc[p] = "get_save"
  /\ store' = [store EXCEPT ![arg[p].id].status = doc[p].status]
  /\ Finish(p, Returned(doc[p]))
  /\ UNCHANGED <<clock, ui, op, arg, now, doc, pre, confirmed, wins, calls>>

(* ------------------- confirm / fail / cancel (guarded) ----------------- *)
\* Mutant: the filter without its status clause.
GuardMatchesNoStatus(d, t) ==
  d.expiresAt > t

\* Mutant: the filter without its expiresAt clause.
GuardMatchesNoExpiry(d, t) ==
  d.status \notin TERMINAL_STATUSES

\* The filter of findOneAndUpdate, on the document with the given _id.
GuardMatches(d, t) ==
  /\ d.status \notin TERMINAL_STATUSES
  /\ d.expiresAt > t

\* Mutant: the $set of a transition without failureReason.
ApplySetStatusOnly(d, target, fr) ==
  [d EXCEPT !.status = target]

\* Mutant: a transition that also pushes expiresAt one second further.
ApplySetExtendsExpiry(d, target, fr) ==
  [d EXCEPT !.status = target, !.failureReason = IF fr = None THEN @ ELSE fr,
            !.expiresAt = @ + MsPerSecond]

\* The $set of a transition: status, and failureReason when `fr` is given.
ApplySet(d, target, fr) ==
  [d EXCEPT !.status = target, !.failureReason = IF fr = None THEN @ ELSE fr]

\* Mutant: the expiry check placed before the terminal check.
explainExpiryFirst(existing, t) ==
  IF existing = NoDoc
    THEN AppError("NOT_FOUND", "")
    ELSE IF existing.expiresAt <= t
      THEN AppError("PAYMENT_EXPIRED", "")
      ELSE IF existing.status \in TERMINAL_STATUSES
        THEN AppError("PAYMENT_ALREADY_FINAL", existing.status)
        ELSE AppError("PAYMENT_UPDATE_BLOCKED", "")

\* Mutant: the expiry check with < where the update's filter has the
\* complement of >.
explainStrictExpiry(existing, t) ==
  IF existing = NoDoc
    THEN AppError("NOT_FOUND", "")
    ELSE IF existing.status \in TERMINAL_STATUSES
      THEN AppError("PAYMENT_ALREADY_FINAL", existing.status)
      ELSE IF existing.expiresAt < t
        THEN AppError("PAYMENT_EXPIRED", "")
        ELSE AppError("PAYMENT_UPDATE_BLOCKED", "")

\* Mutant: no check for a missing document.
explainAbsentUnchecked(existing, t) ==
  IF existing # NoDoc /\ existing.status \in TERMINAL_STATUSES
    THEN AppError("PAYMENT_ALREADY_FINAL", existing.status)
    ELSE IF existing # NoDoc /\ existing.expiresAt <= t
      THEN AppError("PAYMENT_EXPIRED", "")
      ELSE AppError("PAYMENT_UPDATE_BLOCKED", "")

\* explainGuardFailure's decision on the re-fetched document.
explainGuardFailure(existing, t) ==
  IF existing = NoDoc
    THEN AppError("NOT_FOUND", "")
    ELSE IF existing.status \in TERMINAL_STATUSES
      THEN AppError("PAYMENT_ALREADY_FINAL", existing.status)
      ELSE IF existing.expiresAt <= t
        THEN AppError("PAYMENT_EXPIRED", "")
        ELSE AppError("PAYMENT_UPDATE_BLOCKED", "")

\* const now = new Date(); findOneAndUpdate(...) is issued.
TransitionBegin(p, o, a) ==
  /\ Start(p, o, a, "update", NoRes)
  /\ now' = [now EXCEPT ![p] = clock]
  /\ doc' = [doc EXCEPT ![p] = NoDoc]
  /\ UNCHANGED <<store, clock, ui, confirmed, wins>>

\* findOneAndUpdate(filter, { $set }, { new: true }): one atomic step of the
\* store.  A match returns the updated document's DTO; null goes on to
\* explainGuardFailure.
GuardedUpdate(p, target, fr) ==
  LET id == arg[p].id IN
  /\ pc[p] = "update"
  /\ IF Exists(id) /\ GuardMatches(store[id], now[p])
       THEN LET updated == ApplySet(store[id], target, fr) IN
            /\ store' = [store EXCEPT ![id] = updated]
            /\ doc' = [doc EXCEPT ![p] = updated]
            /\ Finish(p, Returned(updated))
            /\ wins' = [wins EXCEPT ![id] = IF @ < 2 THEN @ + 1 ELSE @]
            /\ confirmed' = IF target = SUCCEEDED THEN confirmed \cup {id} ELSE confirmed
       ELSE /\ pc' = [pc EXCEPT ![p] = "explain"]
            /\ UNCHANGED <<store, doc, res, wins, confirmed>>
  /\ UNCHANGED <<clock, ui, op, arg, now, pre, calls>>

\* confirmPaymentIntent's findOneAndUpdate.
ConfirmUpdate(p) ==
  /\ op[p] = "confirm"
  /\ GuardedUpdate(p, SUCCEEDED, None)

\* failPaymentIntent's findOneAndUpdate, with reason ?? 'DECLINED'.
FailUpdate(p) ==
  /\ op[p] = "fail"
  /\ GuardedUpdate(p, FAILED, Some(Coalesce(arg[p].reason, "DECLINED")))

\* cancelPaymentIntent's findOneAndUpdate.
CancelUpdate(p) ==
  /\ op[p] = "cancel"
  /\ GuardedUpdate(p, CANCELLED, None)

\* Mutant: a re-fetch that persists EXPIRED when it finds the record expired.
ExplainPersistsExpired(p) ==
  /\ pc[p] = "explain"
  /\ LET existing == IF Exists(arg[p].id) THEN store[arg[p].id] ELSE NoDoc IN
     /\ doc' = [doc EXCEPT ![p] = existing]
     /\ Finish(p, explainGuardFailure(existing, now[p]))
     /\ store' = IF explainGuardFailure(existing, now[p]).code = "PAYMENT_EXPIRED"
                   THEN [store EXCEPT ![arg[p].id].status = EXPIRED]
                   ELSE store
  /\ UNCHANGED <<clock, ui, op, arg, now, pre, confirmed, wins, calls>>

\* Mutant: a guarded transition that retries its update after a failed guard.
ExplainRetries(p) ==
  /\ pc[p] = "explain"
  /\ pc' = [pc EXCEPT ![p] = "update"]
  /\ UNCHANGED <<store, clock, ui, op, arg, now, doc, res, pre, confirmed, wins, calls>>

\* throw await explainGuardFailure(id, now): findById, then the decision.
ExplainGuardFailure(p) ==
  /\ pc[p] = "explain"
  /\ LET existing == IF Exists(arg[p].id) THEN store[arg[p].id] ELSE NoDoc IN
     /\ doc' = [doc EXCEPT ![p] = existing]
     /\ Finish(p, explainGuardFailure(existing, now[p]))
  /\ UNCHANGED <<store, clock, ui, op, arg, now, pre, confirmed, wins, calls>>

(* ---------------------------- listPaymentIntents ----------------------- *)
\* const now = new Date(); updateMany(...) is issued.
ListCall(p, l, f) ==
    /\ Start(p, "list", [NoArg EXCEPT !.limit = l, !.status = f], "list_sweep", NoRes)
    /\ now' = [now EXCEPT ![p] = clock]
    /\ doc' = [doc EXCEPT ![p] = NoDoc]
    /\ UNCHANGED <<store, clock, ui, confirmed, wins>>

\* Mutant: the sweep's filter without the status clause.
SweepMatchesAnyStatus(d, t) ==
  /\ d.merchantId = DEMO_MERCHANT_ID
  /\ d.expiresAt <= t

\* The filter of the sweep's updateMany.
SweepMatches(d, t) ==
  /\ d.merchantId = DEMO_MERCHANT_ID
  /\ d.status = PENDING
  /\ d.expiresAt <= t

\* updateMany(filter, { $set: { status: EXPIRED } }).  Each document is tested
\* and written atomically and independently of the others; the writes of one
\* sweep are taken as one step.
ListSweep(p) ==
  /\ pc[p] = "list_sweep"
  /\ store' = [i \in DOMAIN store |->
                 IF SweepMatches(store[i], now[p])
                   THEN [store[i] EXCEPT !.status = EXPIRED]
                   ELSE store[i]]
  /\ pc' = [pc EXCEPT ![p] = "list_find"]
  /\ res' = [res EXCEPT ![p].swept = {i \in DOMAIN store : SweepMatches(store[i], now[p])}]
  /\ UNCHANGED <<clock, ui, op, arg, now, doc, pre, confirmed, wins, calls>>

Min(a, b) == IF a <= b THEN a ELSE b

\* The query of find(): merchantId, and status when a (truthy) filter is given.
QueryMatches(d, f) ==
  /\ d.merchantId = DEMO_MERCHANT_ID
  /\ (Truthy(f) => d.status = f[1])

\* Mutant: the sort with the opposite direction (createdAt ascending).
SortedOldestFirst(S) ==
  {s \in [1..Cardinality(S) -> S] :
     /\ \A i, j \in 1..Cardinality(S) : i # j => s[i] # s[j]
     /\ \A i, j \in 1..Cardinality(S) :
          i < j => store[s[i]].createdAt <= store[s[j]].createdAt}

\* The orders find().sort({ createdAt: -1 }) may return the ids of S in:
\* newest first, documents of equal createdAt in any order.
SortedNewestFirst(S) ==
  {s \in [1..Cardinality(S) -> S] :
     /\ \A i, j \in 1..Cardinality(S) : i # j => s[i] # s[j]
     /\ \A i, j \in 1..Cardinality(S) :
          i < j => store[s[i]].createdAt >= store[s[j]].createdAt}

\* find(query).sort(...).limit(Math.min(limit, 200)), mapped through toDto.
ListFind(p) ==
  /\ pc[p] = "list_find"
  /\ \E s \in SortedNewestFirst({i \in DOMAIN store : QueryMatches(store[i], arg[p].status)}) :
       LET n == Min(Len(s), Min(arg[p].limit, LIST_CAP)) IN
       Finish(p, [ReturnedList([k \in 1..n |-> toDto(store[s[k]])])
                    EXCEPT !.swept = res[p].swept])
  /\ UNCHANGED <<store, clock, ui, op, arg, now, doc, pre, confirmed, wins, calls>>

(* ------------------------------ behaviours ----------------------------- *)
\* Inputs of the calls in the lifecycle specification.
Amounts == {500}
ExpiresInChoices == {Some(1)}
ReasonChoices == {None, Some("NO_FUNDS")}

CreateBegin(p) ==
  \E am \in Amounts, e \in ExpiresInChoices : CreateCall(p, am, e, None)

GetLoad(p) ==
  \E id \in Ids : GetCall(p, id)

ConfirmBegin(p) ==
  \E id \in Ids : TransitionBegin(p, "confirm", [NoArg EXCEPT !.id = id])

FailBegin(p) ==
  \E id \in Ids, r \in ReasonChoices :
    TransitionBegin(p, "fail", [NoArg EXCEPT !.id = id, !.reason = r])

CancelBegin(p) ==
  \E id \in Ids : TransitionBegin(p, "cancel", [NoArg EXCEPT !.id = id])

ListBegin(p) ==
  ListCall(p, 50, None)

Next ==
  \/ Tick
  \/ \E p \in Procs :
       \/ CreateBegin(p)
       \/ CreateInsert(p)
       \/ GetLoad(p)
       \/ GetCheck(p)
       \/ GetSave(p)
       \/ ConfirmBegin(p)
       \/ ConfirmUpdate(p)
       \/ FailBegin(p)
       \/ FailUpdate(p)
       \/ CancelBegin(p)
       \/ CancelUpdate(p)
       \/ ExplainGuardFailure(p)
       \/ ListBegin(p)
       \/ ListSweep(p)
       \/ ListFind(p)

Spec == Init /\ [][Next]_vars

(* ------------------------------ properties ----------------------------- *)
TransitionOps == {"confirm", "fail", "cancel"}
IdOps == TransitionOps \cup {"get"}

Done(p) == pc[p] = "done"

\* Worker p returns from its call in this step.
Returns(p) == pc[p] # "done" /\ pc'[p] = "done"

\* Worker p takes a step of its call.
Steps(p) == <<pc[p], op[p], arg[p], res[p]>> # <<pc'[p], op'[p], arg'[p], res'[p]>>

\* A finished guarded transition on an existing record that was PENDING when
\* the call read the clock, and whose expiresAt that reading had reached.
CalledExpired(p) ==
  /\ Done(p)
  /\ op[p] \in TransitionOps
  /\ pre[p] = PENDING
  /\ store[arg[p].id].expiresAt <= now[p]

\* Result r of a call with arguments a reports record i as expired.
ReportsExpired(r, a, i) ==
  \/ r.kind = "ok" /\ r.dto.id = i /\ r.dto.status = EXPIRED
  \/ r.kind = "list" /\ \E k \in DOMAIN r.items :
                          r.items[k].id = i /\ r.items[k].status = EXPIRED
  \/ /\ r.kind = "err"
     /\ a.id = i
     /\ \/ r.code = "PAYMENT_EXPIRED"
        \/ r.code = "PAYMENT_ALREADY_FINAL" /\ r.status = EXPIRED

\* C1: once a record's stored status is terminal, no step of any call changes
\* its stored status or failureReason.
TerminalNeverChanges ==
  [][\A i \in DOMAIN store :
       store[i].status \in TERMINAL_STATUSES =>
         /\ store'[i].status = store[i].status
         /\ store'[i].failureReason = store[i].failureReason]_vars

\* C2: after confirmPaymentIntent has returned a DTO for a record, no call
\* that returns reports that record as EXPIRED or fails on it as expired.
CompletedNeverReportedExpired ==
  [][\A p \in Procs : \A i \in confirmed :
       Returns(p) => ~ReportsExpired(res'[p], arg'[p], i)]_vars

\* C3: for every record id at most one confirm/fail/cancel call returns a DTO.
AtMostOneWinner ==
  \A i \in Ids : wins[i] <= 1

\* C3 witness: a transition has succeeded on a record and another transition
\* call that started while the record was PENDING has failed on it.
AtMostOneWinnerWitness ==
  \E i \in Ids, p \in Procs :
    /\ wins[i] = 1
    /\ Done(p) /\ op[p] \in TransitionOps /\ arg[p].id = i
    /\ pre[p] = PENDING /\ res[p].kind = "err"
    /\ now[p] < store[i].expiresAt

\* One confirm (p) and one cancel (q) have both finished on the same record,
\* both started while it was PENDING, neither read a time at or past its
\* expiresAt, and no other worker has made a call.
RacedConfirmCancel(p, q) ==
  /\ p # q /\ Done(p) /\ Done(q)
  /\ op[p] = "confirm" /\ op[q] = "cancel"
  /\ arg[p].id = arg[q].id
  /\ pre[p] = PENDING /\ pre[q] = PENDING
  /\ now[p] < store[arg[p].id].expiresAt
  /\ now[q] < store[arg[q].id].expiresAt
  /\ \A r \in Procs \ {p, q} : pc[r] = "idle"

\* C4: of a concurrent confirm and cancel on a PENDING, unexpired record,
\* exactly one returns a DTO and the other fails with PAYMENT_ALREADY_FINAL
\* quoting the winner's status.
ConfirmCancelRace ==
  \A p, q \in Procs :
    RacedConfirmCancel(p, q) =>
      \/ /\ res[p].kind = "ok" /\ res[p].dto.status = SUCCEEDED
         /\ res[q] = AppError("PAYMENT_ALREADY_FINAL", SUCCEEDED)
      \/ /\ res[q].kind = "ok" /\ res[q].dto.status = CANCELLED
         /\ res[p] = AppError("PAYMENT_ALREADY_FINAL", CANCELLED)

\* C4 witness: such a race, won by the cancel.
ConfirmCancelRaceWitness ==
  \E p, q \in Procs : RacedConfirmCancel(p, q) /\ res[q].kind = "ok"

\* C5: a confirm/fail/cancel call that starts on a terminal record fails with
\* PAYMENT_ALREADY_FINAL quoting the status the record had when it started.
TerminalRejectsWithOriginalStatus ==
  \A p \in Procs :
    (Done(p) /\ op[p] \in TransitionOps /\ pre[p] \in TERMINAL_STATUSES) =>
      res[p] = AppError("PAYMENT_ALREADY_FINAL", pre[p])

\* C6 (as claimed): a transition on a record that was non-terminal when the
\* call read a time at or past its expiresAt fails with PAYMENT_EXPIRED.
ExpiredCallFailsExpired ==
  \A p \in Procs : CalledExpired(p) => res[p] = AppError("PAYMENT_EXPIRED", "")

\* C6 (amended): such a call never succeeds; it fails with PAYMENT_EXPIRED when
\* the re-fetched record is still non-terminal, and with PAYMENT_ALREADY_FINAL
\* quoting the re-fetched status when the record has become terminal meanwhile.
ExpiredCallNeverSucceeds ==
  \A p \in Procs :
    CalledExpired(p) =>
      res[p] = IF doc[p].status \in TERMINAL_STATUSES
                 THEN AppError("PAYMENT_ALREADY_FINAL", doc[p].status)
                 ELSE AppError("PAYMENT_EXPIRED", "")

\* C6 witness: a call on an expired PENDING record has failed with PAYMENT_EXPIRED.
ExpiredCallWitness ==
  \E p \in Procs : CalledExpired(p) /\ res[p].code = "PAYMENT_EXPIRED"

\* C7: no record's stored status becomes SUCCEEDED at a clock time at or
\* after its expiresAt.
NoConfirmAtOrAfterExpiry ==
  [][\A i \in DOMAIN store :
       (store[i].status # SUCCEEDED /\ store'[i].status = SUCCEEDED) =>
         clock < store[i].expiresAt]_vars

\* The re-fetch of worker p's failed transition found a terminal record past
\* its expiresAt.
MissedOnTerminalExpired(p) ==
  /\ Done(p) /\ op[p] \in TransitionOps /\ res[p].kind = "err"
  /\ doc[p] # NoDoc
  /\ doc[p].status \in TERMINAL_STATUSES
  /\ doc[p].expiresAt <= now[p]

\* C8: a failed transition whose re-fetch finds a record both terminal and
\* past its expiresAt fails with PAYMENT_ALREADY_FINAL quoting that record's
\* status, never with PAYMENT_EXPIRED.
TerminalCheckedBeforeExpiry ==
  \A p \in Procs :
    MissedOnTerminalExpired(p) =>
      res[p] = AppError("PAYMENT_ALREADY_FINAL", doc[p].status)

\* C8 witness: a transition has failed on a SUCCEEDED record past its expiresAt.
TerminalCheckedBeforeExpiryWitness ==
  \E p \in Procs : MissedOnTerminalExpired(p) /\ doc[p].status = SUCCEEDED

\* C9 (as claimed): no call ever fails with PAYMENT_UPDATE_BLOCKED.
NeverUpdateBlocked ==
  \A p \in Procs : ~(Done(p) /\ res[p].code = "PAYMENT_UPDATE_BLOCKED")

\* C9 (amended): a confirm/fail/cancel call on an id whose record exists when
\* the call starts never fails with PAYMENT_UPDATE_BLOCKED.
NoUpdateBlockedOnExistingRecord ==
  \A p \in Procs :
    (Done(p) /\ op[p] \in TransitionOps /\ pre[p] # "ABSENT") =>
      res[p].code # "PAYMENT_UPDATE_BLOCKED"

\* C9 witness: a transition on an existing PENDING record has missed exactly
\* at its expiresAt and been explained.
NoUpdateBlockedWitness ==
  \E p \in Procs :
    /\ Done(p) /\ op[p] \in TransitionOps /\ pre[p] = PENDING
    /\ res[p].kind = "err"
    /\ doc[p].status = PENDING /\ doc[p].expiresAt = now[p]

\* C10: a step of a get/confirm/fail/cancel call on an id with no record
\* leaves the store unchanged, and the call ends with NOT_FOUND.
AbsentIdNotFound ==
  [][\A p \in Procs :
       (Steps(p) /\ op'[p] \in IdOps /\ arg'[p].id \notin DOMAIN store') =>
         /\ store' = store
         /\ pc'[p] = "done" => res'[p] = AppError("NOT_FOUND", "")]_vars

\* C10 witness: a get and a confirm on an id with no record have both ended
\* with NOT_FOUND.
AbsentIdNotFoundWitness ==
  \E p, q \in Procs :
    /\ Done(p) /\ op[p] = "get" /\ ~Exists(arg[p].id) /\ res[p].code = "NOT_FOUND"
    /\ Done(q) /\ op[q] = "confirm" /\ ~Exists(arg[q].id) /\ res[q].code = "NOT_FOUND"

\* The status a transition call sets.
TargetOf(o) ==
  CASE o = "confirm" -> SUCCEEDED
    [] o = "fail" -> FAILED
    [] o = "cancel" -> CANCELLED

\* The record a transition call with operation o and arguments a makes of d.
Transitioned(d, o, a) ==
  [d EXCEPT !.status = TargetOf(o),
            !.failureReason = IF o = "fail"
                                THEN Some(Coalesce(a.reason, "DECLINED"))
                                ELSE @]

\* C11: when a confirm/fail/cancel call that started on a PENDING record
\* reaches its update with the record still PENDING (no other operation has
\* touched it) and expiresAt after the call's time reading, the update stores
\* the target status (and, for fail, the reason or "DECLINED") and nothing
\* else, and the call returns the DTO of the stored record.
UncontendedTransitionSucceeds ==
  [][\A p \in Procs :
       ( /\ pc[p] = "update" /\ pc'[p] # "update"
         /\ pre[p] = PENDING
         /\ store[arg[p].id].status = PENDING
         /\ store[arg[p].id].expiresAt > now[p] ) =>
           /\ store' = [store EXCEPT ![arg[p].id] = Transitioned(@, op[p], arg[p])]
           /\ res'[p] = Returned(store'[arg[p].id])
           /\ res'[p].dto.status = TargetOf(op[p])]_vars

\* C11 witness: a fail call without a reason has succeeded on a PENDING record
\* and both its DTO and the store carry FAILED with reason "DECLINED".
UncontendedTransitionWitness ==
  \E p \in Procs :
    /\ Done(p) /\ op[p] = "fail" /\ pre[p] = PENDING
    /\ arg[p].reason = None
    /\ res[p].kind = "ok"
    /\ res[p].dto.status = FAILED
    /\ res[p].dto.failureReason = Some("DECLINED")
    /\ store[arg[p].id].failureReason = Some("DECLINED")

(* ------------------- behaviours: creation and idempotency -------------- *)
\* Inputs of createPaymentIntent: invalid and valid amounts, the default and
\* an explicit expiry, calls without a key and with a key.
CreateAmounts == {-1, 0, 500}
CreateExpiresInChoices == {None, Some(1)}
KeyChoices == {None, Some("k1")}

CreateAny(p) ==
  \E am \in CreateAmounts, e \in CreateExpiresInChoices, k \in KeyChoices :
    CreateCall(p, am, e, k)

\* Creation with keys, next to confirmations that move records out of PENDING.
NextCreate ==
  \/ Tick
  \/ \E p \in Procs :
       \/ CreateAny(p)
       \/ CreateInsert(p)
       \/ CreateFindExisting(p)
       \/ ConfirmBegin(p)
       \/ ConfirmUpdate(p)
       \/ ExplainGuardFailure(p)

SpecCreate == Init /\ [][NextCreate]_vars

(* ----------------------- properties of creation ------------------------ *)
\* Worker p's create call returns in this step, with a DTO.
CreateReturns(p) ==
  /\ pc[p] \in {"create_insert", "create_find"}
  /\ pc'[p] = "done"
  /\ res'[p].kind = "ok"

\* Worker p's create call inserts a record in this step.
Inserts(p) ==
  /\ pc[p] = "create_insert"
  /\ pc'[p] = "done"
  /\ Len(store') = Len(store) + 1

\* The ids of the stored records carrying key k in the demo merchant's scope.
WithKey(k) ==
  {i \in DOMAIN store :
     store[i].merchantId = DEMO_MERCHANT_ID /\ store[i].idempotencyKey = k}

\* C12 as stated: every create call with amount > 0 that has returned a DTO
\* has returned status PENDING.
CreateReturnsPending ==
  \A p \in Procs :
    (Done(p) /\ op[p] = "create" /\ arg[p].amount > 0 /\ res[p].kind = "ok") =>
      res[p].dto.status = PENDING

\* C12 amended: a create call that inserts a record returns it with status
\* PENDING and stores it PENDING; a create call that returns without
\* inserting (a replay of its key) returns the record stored under that key
\* as it is stored at that moment, whatever its status.
CreateReturnsPendingOrStored ==
  [][\A p \in Procs :
       CreateReturns(p) =>
         IF Inserts(p)
           THEN /\ res'[p].dto.status = PENDING
                /\ store'[Len(store')].status = PENDING
                /\ res'[p].dto = toDto(store'[Len(store')])
           ELSE /\ store' = store
                /\ \E i \in WithKey(arg[p].idempotencyKey) :
                     res'[p].dto = toDto(store[i])]_vars

\* C12 witness: a create call with a valid amount has returned the record of
\* its key with status SUCCEEDED, and another has returned a PENDING record.
CreateReturnsStoredWitness ==
  \E p, q \in Procs :
    /\ Done(p) /\ op[p] = "create" /\ arg[p].amount > 0
    /\ res[p].kind = "ok" /\ res[p].dto.status = SUCCEEDED
    /\ Done(q) /\ op[q] = "create" /\ arg[q].amount > 0
    /\ res[q].kind = "ok" /\ res[q].dto.status = PENDING

\* The expiry a create call with arguments a asks for, in milliseconds.
ExpiryMs(a) ==
  Coalesce(a.expiresInSeconds, DEFAULT_EXPIRY_SECONDS) * MsPerSecond

\* C13 as stated: every inserted record has expiresAt equal to its createdAt
\* plus the call's expiresInSeconds (300 when none was given).
ExpiresAtFromCreatedAt ==
  [][\A p \in Procs :
       Inserts(p) =>
         LET d == store'[Len(store')] IN
         d.expiresAt = d.createdAt + ExpiryMs(arg[p])]_vars

\* C13 amended: every inserted record has expiresAt equal to the time the
\* call read on entry plus its expiresInSeconds (300 when none was given);
\* createdAt is stamped when the document is saved and is at or after that
\* reading, so expiresAt <= createdAt + expiresInSeconds.
ExpiresAtFromCallTime ==
  [][\A p \in Procs :
       Inserts(p) =>
         LET d == store'[Len(store')] IN
         /\ d.expiresAt = now[p] + ExpiryMs(arg[p])
         /\ now[p] <= d.createdAt
         /\ d.expiresAt <= d.createdAt + ExpiryMs(arg[p])
         /\ res'[p].dto.expiresAt = d.expiresAt
         /\ res'[p].dto.createdAt = d.createdAt]_vars

\* C13 witness: a record created without expiresInSeconds is stored whose
\* createdAt is later than its expiresAt minus 300 seconds.
ExpiresAtFromCallTimeWitness ==
  \E p \in Procs :
    /\ Done(p) /\ op[p] = "create" /\ res[p].kind = "ok"
    /\ arg[p].expiresInSeconds = None
    /\ res[p].dto.expiresAt = now[p] + DEFAULT_EXPIRY_SECONDS * MsPerSecond
    /\ res[p].dto.createdAt > now[p]
    /\ \E i \in DOMAIN store : toDto(store[i]) = res[p].dto

\* Worker p's create call carries a usable key and a valid amount.
KeyedCreate(p) ==
  /\ op[p] = "create"
  /\ pc[p] \in {"create_insert", "create_find"}
  /\ Truthy(arg[p].idempotencyKey)
  /\ Valid(doc[p])

\* C14: a step of a create call whose key is already stored (the second of
\* two calls in sequence) leaves the store as it is, and when the call returns
\* it returns a DTO with the id of the record stored under the key, which is
\* the id every finished create call with that key has returned.
ReplayReturnsSameId ==
  [][\A p \in Procs :
       (KeyedCreate(p) /\ Steps(p) /\ WithKey(arg[p].idempotencyKey) # {}) =>
         /\ store' = store
         /\ pc'[p] = "done" =>
              /\ res'[p].kind = "ok"
              /\ res'[p].dto.id \in WithKey(arg[p].idempotencyKey)
              /\ \A q \in Procs \ {p} :
                   ( /\ Done(q) /\ op[q] = "create" /\ res[q].kind = "ok"
                     /\ arg[q].idempotencyKey = arg[p].idempotencyKey ) =>
                       res'[p].dto.id = res[q].dto.id]_vars

\* C14 witness: two create calls with the same key have returned the same id,
\* the second having started after the record was inserted, and the store
\* holds one record.
ReplayReturnsSameIdWitness ==
  \E p, q \in Procs :
    /\ p # q
    /\ Done(p) /\ op[p] = "create" /\ res[p].kind = "ok"
    /\ Done(q) /\ op[q] = "create" /\ res[q].kind = "ok"
    /\ Truthy(arg[p].idempotencyKey)
    /\ arg[q].idempotencyKey = arg[p].idempotencyKey
    /\ res[p].dto.id = res[q].dto.id
    /\ now[q] > res[p].dto.createdAt
    /\ Len(store) = 1

\* A finished create call of worker p with a usable key and a valid amount.
KeyedCreateDone(p) ==
  /\ Done(p)
  /\ op[p] = "create"
  /\ Truthy(arg[p].idempotencyKey)
  /\ arg[p].amount >= 1

\* C15: no two stored records of one merchant carry the same present key,
\* and all finished create calls with the same key (and a valid amount),
\* concurrent or not, have returned a DTO, all with the same id.
OneRecordPerKey ==
  /\ \A i, j \in DOMAIN store :
       ( /\ i # j
         /\ store[i].idempotencyKey # None
         /\ store[i].merchantId = store[j].merchantId ) =>
           store[i].idempotencyKey # store[j].idempotencyKey
  /\ \A p \in Procs : KeyedCreateDone(p) => res[p].kind = "ok"
  /\ \A p, q \in Procs :
       ( /\ KeyedCreateDone(p) /\ KeyedCreateDone(q)
         /\ arg[p].idempotencyKey = arg[q].idempotencyKey ) =>
           res[p].dto.id = res[q].dto.id

\* C15 witness: two create calls with the same key that both started before
\* the record was inserted have both returned its id.
OneRecordPerKeyWitness ==
  \E p, q \in Procs :
    /\ p # q
    /\ KeyedCreateDone(p) /\ KeyedCreateDone(q)
    /\ arg[p].idempotencyKey = arg[q].idempotencyKey
    /\ res[p].kind = "ok" /\ res[q].kind = "ok"
    /\ res[p].dto.id = res[q].dto.id
    /\ now[p] < res[p].dto.createdAt
    /\ now[q] < res[p].dto.createdAt

\* C16: every stored record has amount > 0, and every finished create call
\* with amount <= 0 has failed with the schema's ValidationError; with the
\* first conjunct, no record of such a call is in the store.
NonPositiveAmountRejected ==
  /\ \A i \in DOMAIN store : store[i].amount > 0
  /\ \A p \in Procs :
       (Done(p) /\ op[p] = "create" /\ arg[p].amount <= 0) =>
         /\ res[p] = AppError("ValidationError", "")
         /\ doc[p]._id \notin DOMAIN store

\* C16 witness: create calls with amount 0 and with a negative amount have
\* both failed while the store holds a record of a valid call.
NonPositiveAmountRejectedWitness ==
  \E p, q \in Procs :
    /\ Done(p) /\ op[p] = "create" /\ arg[p].amount = 0
    /\ res[p].code = "ValidationError"
    /\ Done(q) /\ op[q] = "create" /\ arg[q].amount < 0
    /\ res[q].code = "ValidationError"
    /\ Len(store) > 0

(* ------------------------ properties of reads -------------------------- *)
\* Worker p takes a step of a get call on an existing record.
GetSteps(p) ==
  /\ op'[p] = "get"
  /\ Steps(p)
  /\ arg'[p].id \in DOMAIN store

\* C17: a get call that loaded a PENDING record and read a time at or after
\* its expiresAt returns status EXPIRED and leaves the record EXPIRED in the
\* store; no step of a get call that loaded an EXPIRED record changes the
\* store, and that call returns status EXPIRED.
GetExpiresOnRead ==
  [][\A p \in Procs :
       GetSteps(p) =>
         LET id == arg'[p].id IN
         /\ ( /\ pc'[p] = "done"
              /\ pre'[p] = PENDING
              /\ store[id].expiresAt <= now'[p] ) =>
                /\ res'[p].kind = "ok"
                /\ res'[p].dto.status = EXPIRED
                /\ store'[id].status = EXPIRED
         /\ pre'[p] = EXPIRED =>
              /\ store' = store
              /\ pc'[p] = "done" =>
                   res'[p].kind = "ok" /\ res'[p].dto.status = EXPIRED]_vars

\* C17 witness: one get call that loaded the record PENDING and one that
\* loaded it EXPIRED have both returned EXPIRED for it.
GetExpiresOnReadWitness ==
  \E p, q \in Procs :
    /\ Done(p) /\ op[p] = "get" /\ pre[p] = PENDING
    /\ res[p].kind = "ok" /\ res[p].dto.status = EXPIRED
    /\ Done(q) /\ op[q] = "get" /\ pre[q] = EXPIRED
    /\ arg[q].id = arg[p].id
    /\ res[q].kind = "ok" /\ res[q].dto.status = EXPIRED
    /\ store[arg[p].id].status = EXPIRED

\* C18: no step of a get call that loaded a terminal record changes the
\* store, and the call returns the status it loaded; a get call that loaded a
\* PENDING record and read a time before its expiresAt returns PENDING and
\* neither its load nor its check changes the store.
GetLeavesFreshAlone ==
  [][\A p \in Procs :
       GetSteps(p) =>
         /\ pc'[p] = "get_check" => store' = store
         /\ pre'[p] \in TERMINAL_STATUSES =>
              /\ store' = store
              /\ pc'[p] = "done" =>
                   res'[p].kind = "ok" /\ res'[p].dto.status = pre'[p]
         /\ ( /\ pc'[p] = "done"
              /\ pre'[p] = PENDING
              /\ doc'[p].expiresAt > now'[p] ) =>
                /\ store' = store
                /\ res'[p] = Returned(doc[p])
                /\ res'[p].dto.status = PENDING]_vars

\* C18 witness: a get call has returned SUCCEEDED for a record whose
\* expiresAt its time reading had reached, and another get call has returned
\* PENDING for a record that had not expired.
GetLeavesFreshAloneWitness ==
  \E p, q \in Procs :
    /\ Done(p) /\ op[p] = "get" /\ pre[p] = SUCCEEDED
    /\ doc[p].expiresAt <= now[p]
    /\ res[p].kind = "ok" /\ res[p].dto.status = SUCCEEDED
    /\ store[arg[p].id].status = SUCCEEDED
    /\ Done(q) /\ op[q] = "get" /\ pre[q] = PENDING
    /\ res[q].kind = "ok" /\ res[q].dto.status = PENDING

\* C19: no finished get call has returned a DTO that is PENDING with
\* expiresAt at or before the time the call read (which is not before its
\* start), and no finished list call has returned an item that is PENDING
\* with expiresAt at or before the time the call read when it started.
ReadsAreFresh ==
  \A p \in Procs :
    Done(p) =>
      /\ (op[p] = "get" /\ res[p].kind = "ok") =>
           ~(res[p].dto.status = PENDING /\ res[p].dto.expiresAt <= now[p])
      /\ op[p] = "list" =>
           \A k \in DOMAIN res[p].items :
             ~( /\ res[p].items[k].status = PENDING
                /\ res[p].items[k].expiresAt <= now[p] )

\* The get half of the freshness property on its own: no finished get call
\* has returned a PENDING DTO whose expiresAt its time reading had reached.
GetReadsAreFresh ==
  \A p \in Procs :
    (Done(p) /\ op[p] = "get" /\ res[p].kind = "ok") =>
      ~(res[p].dto.status = PENDING /\ res[p].dto.expiresAt <= now[p])

(* --------------------------- behaviours: lists ------------------------- *)
\* Inputs of listPaymentIntents: a limit below and one above the number of
\* records, no status filter and two filters.
LimitChoices == {1, 50}
StatusFilterChoices == {None, Some(PENDING), Some(EXPIRED)}

ListAny(p) ==
  \E l \in LimitChoices, f \in StatusFilterChoices : ListCall(p, l, f)

\* Lists with limits and filters, next to creations and confirmations.
NextList ==
  \/ Tick
  \/ \E p \in Procs :
       \/ CreateBegin(p)
       \/ CreateInsert(p)
       \/ ConfirmBegin(p)
       \/ ConfirmUpdate(p)
       \/ ExplainGuardFailure(p)
       \/ ListAny(p)
       \/ ListSweep(p)
       \/ ListFind(p)

SpecList == Init /\ [][NextList]_vars

(* ------------------------- properties of lists ------------------------- *)
\* Record d is in the demo merchant's scope, PENDING, and expired at time t.
Sweepable(d, t) ==
  d.merchantId = DEMO_MERCHANT_ID /\ d.status = PENDING /\ d.expiresAt <= t

\* The sweep step of worker p's list call sets to EXPIRED exactly the
\* sweepable records and changes nothing else in the store.
SweepsExactly(p) ==
  (pc[p] = "list_sweep" /\ pc'[p] = "list_find") =>
    /\ DOMAIN store' = DOMAIN store
    /\ \A i \in DOMAIN store :
         store'[i] = IF Sweepable(store[i], now[p])
                       THEN [store[i] EXCEPT !.status = EXPIRED]
                       ELSE store[i]
    /\ res'[p].swept = {i \in DOMAIN store : Sweepable(store[i], now[p])}

\* Record i appears with status EXPIRED among the items of result r.
ListedExpired(r, i) ==
  \E k \in DOMAIN r.items : r.items[k].id = i /\ r.items[k].status = EXPIRED

\* C20 as stated: the sweep sets to EXPIRED exactly the PENDING records of
\* the scope whose expiresAt the call's time reading has reached, and when
\* the call returns each of them is EXPIRED in the store and is an item of
\* the result with status EXPIRED.
SweptAreListedExpired ==
  [][\A p \in Procs :
       /\ SweepsExactly(p)
       /\ (pc[p] = "list_find" /\ pc'[p] = "done") =>
            \A i \in res[p].swept :
              /\ store'[i].status = EXPIRED
              /\ ListedExpired(res'[p], i)]_vars

\* C20 amended: the sweep sets to EXPIRED exactly the PENDING records of the
\* scope whose expiresAt the call's time reading has reached; when the call
\* returns each of them is EXPIRED in the store, is never an item with
\* another status, and is an item with status EXPIRED whenever the status
\* filter admits EXPIRED and the matching records do not outnumber
\* min(limit, 200).
SweptAreExpiredWhereListed ==
  [][\A p \in Procs :
       /\ SweepsExactly(p)
       /\ (pc[p] = "list_find" /\ pc'[p] = "done") =>
            \A i \in res[p].swept :
              /\ store'[i].status = EXPIRED
              /\ \A k \in DOMAIN res'[p].items :
                   res'[p].items[k].id = i => res'[p].items[k].status = EXPIRED
              /\ ( /\ arg[p].status \in {None, Some(EXPIRED)}
                   /\ Cardinality({j \in DOMAIN store :
                                     QueryMatches(store[j], arg[p].status)})
                        <= Min(arg[p].limit, LIST_CAP) ) =>
                     ListedExpired(res'[p], i)]_vars

\* C20 witness: a list call has returned whose sweep expired one record and
\* left another one as it was, and the expired record is not among its items.
SweptNotListedWitness ==
  \E p \in Procs :
    /\ Done(p) /\ op[p] = "list"
    /\ \E i \in res[p].swept :
         /\ store[i].status = EXPIRED
         /\ ~ListedExpired(res[p], i)
    /\ \E j \in DOMAIN store :
         j \notin res[p].swept /\ store[j].createdAt <= now[p]

\* The ids of the records the query of a list call with filter f matches.
Matching(f) ==
  {i \in DOMAIN store :
     store[i].merchantId = DEMO_MERCHANT_ID /\ (f # None => store[i].status = f[1])}

\* C21: when a list call with limit >= 1 returns, its items are the DTOs of
\* distinct stored records taken after its sweep; there are
\* min(number of matching records, limit, 200) of them, in order of
\* descending createdAt, no matching record left out is newer than a listed
\* one, and with a status filter every item has that status.
ListIsNewestMatching ==
  [][\A p \in Procs :
       (pc[p] = "list_find" /\ pc'[p] = "done" /\ arg[p].limit >= 1) =>
         LET items == res'[p].items
             f == arg[p].status
             listed == {items[k].id : k \in DOMAIN items}
         IN
         /\ res'[p].kind = "list"
         /\ Len(items) <= Min(arg[p].limit, LIST_CAP)
         /\ Len(items) = Min(Cardinality(Matching(f)), Min(arg[p].limit, LIST_CAP))
         /\ Cardinality(listed) = Len(items)
         /\ listed \subseteq Matching(f)
         /\ \A k \in DOMAIN items : items[k] = toDto(store[items[k].id])
         /\ \A k, l \in DOMAIN items :
              k < l => items[k].createdAt >= items[l].createdAt
         /\ \A i \in Matching(f) \ listed : \A k \in DOMAIN items :
              store[i].createdAt <= items[k].createdAt
         /\ f # None => \A k \in DOMAIN items : items[k].status = f[1]
         /\ \A k \in DOMAIN items :
              items[k].id \in res[p].swept => items[k].status = EXPIRED]_vars

\* C21 witness: a list call with limit 1 has returned the newer of two
\* matching records created at different times.
ListIsNewestMatchingWitness ==
  \E p \in Procs :
    /\ Done(p) /\ op[p] = "list" /\ arg[p].limit = 1
    /\ Len(res[p].items) = 1
    /\ \E i \in DOMAIN store :
         /\ i # res[p].items[1].id
         /\ store[i].createdAt < res[p].items[1].createdAt
         /\ store[i].createdAt <= now[p]
         /\ (arg[p].status # None => store[i].status = arg[p].status[1])

(* ---------------------- properties of the records ---------------------- *)
\* C22: every stored record with a failureReason has status FAILED.
FailureReasonOnlyOnFailed ==
  \A i \in DOMAIN store :
    store[i].failureReason # None => store[i].status = FAILED

(* ------------------ behaviours: every operation, with keys ------------- *)
\* Creations with and without a key, next to reads, transitions and lists.
CreateKeyed(p) ==
  \E am \in Amounts, e \in ExpiresInChoices, k \in KeyChoices :
    CreateCall(p, am, e, k)

NextFrame ==
  \/ Tick
  \/ \E p \in Procs :
       \/ CreateKeyed(p)
       \/ CreateInsert(p)
       \/ CreateFindExisting(p)
       \/ GetLoad(p)
       \/ GetCheck(p)
       \/ GetSave(p)
       \/ ConfirmBegin(p)
       \/ ConfirmUpdate(p)
       \/ FailBegin(p)
       \/ FailUpdate(p)
       \/ CancelBegin(p)
       \/ CancelUpdate(p)
       \/ ExplainGuardFailure(p)
       \/ ListBegin(p)
       \/ ListSweep(p)
       \/ ListFind(p)

SpecFrame == Init /\ [][NextFrame]_vars

\* The fields of a record that are fixed when it is created.
FixedFields(d) ==
  <<d._id, d.merchantId, d.amount, d.currency, d.method, d.idempotencyKey,
    d.expiresAt>>

\* C23: no step of any call (create or its replay, get, confirm, fail,
\* cancel, list) removes a stored record or changes its _id, merchantId,
\* amount, currency, method, idempotencyKey or expiresAt.
FixedFieldsNeverChange ==
  [][\A i \in DOMAIN store :
       /\ i \in DOMAIN store'
       /\ store[i]._id = i
       /\ FixedFields(store'[i]) = FixedFields(store[i])]_vars

\* C23 witness: a record that a transition has moved out of PENDING and that
\* a replay of its key has returned still has the expiresAt and amount the
\* replay returned, under the id the transition was called with.
FixedFieldsWitness ==
  \E p, q \in Procs :
    /\ Done(p) /\ op[p] = "create" /\ res[p].kind = "ok"
    /\ Truthy(arg[p].idempotencyKey)
    /\ res[p].dto.createdAt < now[p]
    /\ Done(q) /\ op[q] \in TransitionOps /\ res[q].kind = "ok"
    /\ arg[q].id = res[p].dto.id
    /\ store[arg[q].id].status # PENDING
    /\ store[arg[q].id].expiresAt = res[p].dto.expiresAt
    /\ store[arg[q].id].amount = res[p].dto.amount

\* C24: the set of stored ids only grows; the id a create call returns is
\* stored from that step on; and a get call ends with NOT_FOUND only for an
\* id that is not stored, hence for no id a create call has returned before.
RecordsNeverDeleted ==
  [][/\ DOMAIN store \subseteq DOMAIN store'
     /\ \A p \in Procs :
          /\ (Returns(p) /\ op'[p] = "create" /\ res'[p].kind = "ok") =>
               res'[p].dto.id \in DOMAIN store'
          /\ (Done(p) /\ op[p] = "create" /\ res[p].kind = "ok") =>
               res[p].dto.id \in DOMAIN store
          /\ (op'[p] = "get" /\ pc'[p] = "done" /\ Steps(p)
                /\ res'[p].code = "NOT_FOUND") =>
               arg'[p].id \notin DOMAIN store]_vars

\* C24 witness: a get call on the id a create call returned, made after the
\* record's expiresAt, has returned its DTO, with status EXPIRED.
RecordsNeverDeletedWitness ==
  \E p, q \in Procs :
    /\ Done(p) /\ op[p] = "create" /\ res[p].kind = "ok"
    /\ Done(q) /\ op[q] = "get" /\ arg[q].id = res[p].dto.id
    /\ res[q].kind = "ok"
    /\ res[q].dto.status = EXPIRED
    /\ now[q] > res[p].dto.expiresAt

\* C25: every step that changes a stored record's status leaves it in a
\* terminal status, and no step stores PENDING on a record that was not
\* PENDING; records are inserted with status PENDING.
StatusNeverBackToPending ==
  [][/\ \A i \in DOMAIN store :
          /\ store'[i].status # store[i].status =>
               store'[i].status \in TERMINAL_STATUSES
          /\ store[i].status # PENDING => store'[i].status # PENDING
     /\ \A i \in DOMAIN store' \ DOMAIN store : store'[i].status = PENDING]_vars

\* C25 witness: a record on which a confirm call succeeded is stored with
\* status EXPIRED: its status has changed twice and is still terminal.
StatusNeverBackToPendingWitness ==
  \E p \in Procs :
    /\ Done(p) /\ op[p] = "confirm" /\ res[p].kind = "ok"
    /\ res[p].dto.status = SUCCEEDED
    /\ store[arg[p].id].status = EXPIRED

\* C26: no finished create call has thrown the duplicate-key error; a create
\* call fails only with the ValidationError of an amount below 1, and a
\* finished create call with a valid amount and a key has returned a record
\* carrying that key.
DuplicateKeyNeverSurfaces ==
  \A p \in Procs :
    (Done(p) /\ op[p] = "create") =>
      /\ res[p].code # "E11000"
      /\ res[p].kind = "err" =>
           res[p].code = "ValidationError" /\ arg[p].amount < 1
      /\ (arg[p].amount >= 1 /\ arg[p].idempotencyKey # None) =>
           /\ res[p].kind = "ok"
           /\ \E i \in DOMAIN store :
                /\ res[p].dto.id = i
                /\ store[i].idempotencyKey = arg[p].idempotencyKey

\* C26 witness: a create call whose key was already stored when it started,
\* and which asked for another expiry than the stored record has, has
\* returned the stored record.
DuplicateKeyNeverSurfacesWitness ==
  \E p \in Procs :
    /\ Done(p) /\ op[p] = "create" /\ arg[p].idempotencyKey # None
    /\ res[p].kind = "ok"
    /\ res[p].dto.createdAt < now[p]
    /\ res[p].dto.expiresAt # now[p] + ExpiryMs(arg[p])

(* ------------------- properties of failed transitions ------------------ *)
FailureCodes ==
  {"NOT_FOUND", "PAYMENT_ALREADY_FINAL", "PAYMENT_EXPIRED", "PAYMENT_UPDATE_BLOCKED"}

\* C27: a confirm/fail/cancel call that does not return a DTO ends, after
\* its re-fetch, with exactly the error the priority absent > terminal >
\* expired > blocked picks for the re-fetched record and the call's time
\* reading, and that error carries one of the four codes.
FailurePriority ==
  [][\A p \in Procs :
       (op[p] \in TransitionOps /\ Returns(p) /\ res'[p].kind # "ok") =>
         LET id == arg[p].id IN
         /\ pc[p] = "explain"
         /\ res'[p].kind = "err"
         /\ res'[p].code \in FailureCodes
         /\ res'[p].code = "NOT_FOUND" <=> id \notin DOMAIN store
         /\ res'[p].code = "PAYMENT_ALREADY_FINAL" <=>
              (id \in DOMAIN store /\ store[id].status \in TERMINAL_STATUSES)
         /\ res'[p].code = "PAYMENT_EXPIRED" <=>
              /\ id \in DOMAIN store
              /\ store[id].status \notin TERMINAL_STATUSES
              /\ store[id].expiresAt <= now[p]
         /\ res'[p].code = "PAYMENT_UPDATE_BLOCKED" <=>
              /\ id \in DOMAIN store
              /\ store[id].status \notin TERMINAL_STATUSES
              /\ store[id].expiresAt > now[p]]_vars

\* C27 witness: two transition calls have failed with different codes, one
\* of them with PAYMENT_ALREADY_FINAL on a record that was also past its
\* expiresAt at the call's time reading.
FailurePriorityWitness ==
  \E p, q \in Procs :
    /\ Done(p) /\ op[p] \in TransitionOps /\ res[p].kind = "err"
    /\ res[p].code = "PAYMENT_ALREADY_FINAL"
    /\ doc[p].expiresAt <= now[p]
    /\ Done(q) /\ op[q] \in TransitionOps /\ res[q].kind = "err"
    /\ res[q].code \in FailureCodes \ {"PAYMENT_ALREADY_FINAL"}

\* C28: no step of a list call changes a record whose status is not PENDING;
\* so a record on which a transition call has returned success, and which
\* holds that transition's target status, holds it after every step of a
\* list call, whatever the list call's time reading.
SweepKeepsTransitions ==
  [][\A q \in Procs :
       (op'[q] = "list" /\ Steps(q)) =>
         /\ \A i \in DOMAIN store :
              store[i].status # PENDING => store'[i] = store[i]
         /\ \A p \in Procs :
              ( /\ Done(p) /\ op[p] \in TransitionOps /\ res[p].kind = "ok"
                /\ store[arg[p].id].status = TargetOf(op[p]) ) =>
                  store'[arg[p].id].status = TargetOf(op[p])]_vars

\* C28 witness: a transition call that started on a PENDING record has
\* returned success, and a list call whose time reading had reached the
\* record's expiresAt has run its sweep without touching the record, which
\* holds the transition's target status.
SweepKeepsTransitionsWitness ==
  \E p, q \in Procs :
    /\ Done(p) /\ op[p] \in TransitionOps /\ pre[p] = PENDING
    /\ res[p].kind = "ok"
    /\ op[q] = "list" /\ pc[q] \in {"list_find", "done"}
    /\ store[arg[p].id].expiresAt <= now[q]
    /\ arg[p].id \notin res[q].swept
    /\ store[arg[p].id].status = TargetOf(op[p])

\* C29: the only step of a confirm/fail/cancel call that changes the store is
\* the update of a call that returns its DTO; no step of a call that ends
\* with an error writes, and when a call ends with PAYMENT_EXPIRED the
\* record is still stored PENDING.
FailedTransitionWritesNothing ==
  [][\A p \in Procs :
       (op'[p] \in TransitionOps /\ Steps(p)) =>
         /\ store' # store => (pc[p] = "update" /\ res'[p].kind = "ok")
         /\ res'[p].kind = "err" => store' = store
         /\ (pc'[p] = "done" /\ res'[p].code = "PAYMENT_EXPIRED") =>
              /\ store'[arg[p].id].status = PENDING
              /\ store'[arg[p].id].failureReason = None]_vars

\* C29 witness: a transition call on a record that was PENDING when it
\* started has ended with PAYMENT_EXPIRED, and the record is stored PENDING
\* past its expiresAt.
FailedTransitionWritesNothingWitness ==
  \E p \in Procs :
    /\ Done(p) /\ op[p] \in TransitionOps /\ pre[p] = PENDING
    /\ res[p].code = "PAYMENT_EXPIRED"
    /\ store[arg[p].id].status = PENDING
    /\ store[arg[p].id].expiresAt <= clock

(* ----------------- behaviours: replays of one key ---------------------- *)
\* Requests under one key: a first form, and forms that differ from it in
\* the amount, the currency, the method or the expiry.
ReplayKey == Some("k1")
ReplayRequests ==
  LET base == [NoArg EXCEPT !.amount = 500, !.idempotencyKey = ReplayKey] IN
  { base,
    [base EXCEPT !.amount = 700],
    [base EXCEPT !.currency = Some("EUR")],
    [base EXCEPT !.method = Some("CARD")],
    [base EXCEPT !.expiresInSeconds = Some(1)] }

CreateReplay(p) ==
  \E a \in ReplayRequests : CreateCallWith(p, a)

\* Creations under one key, next to confirmations that change the status.
NextReplay ==
  \/ Tick
  \/ \E p \in Procs :
       \/ CreateReplay(p)
       \/ CreateInsert(p)
       \/ CreateFindExisting(p)
       \/ ConfirmBegin(p)
       \/ ConfirmUpdate(p)
       \/ ExplainGuardFailure(p)

SpecReplay == Init /\ [][NextReplay]_vars

\* The fields of a DTO that are fixed when its record is created.
FixedDtoFields(t) ==
  <<t.id, t.merchantId, t.amount, t.currency, t.method, t.expiresAt, t.createdAt>>

\* C30: no step of a create call whose key is already stored changes the
\* store, whatever amount, currency, method or expiry the call asks for;
\* when the call returns, it returns the DTO of the record stored under the
\* key as it is stored then (its current status), and that DTO's fixed
\* fields are those every earlier create call of the key has returned.
ReplayReturnsOriginal ==
  [][\A p \in Procs :
       (KeyedCreate(p) /\ Steps(p) /\ WithKey(arg[p].idempotencyKey) # {}) =>
         /\ store' = store
         /\ pc'[p] = "done" =>
              /\ \E i \in WithKey(arg[p].idempotencyKey) :
                   res'[p] = Returned(store[i])
              /\ \A q \in Procs \ {p} :
                   ( /\ Done(q) /\ op[q] = "create" /\ res[q].kind = "ok"
                     /\ arg[q].idempotencyKey = arg[p].idempotencyKey ) =>
                       FixedDtoFields(res'[p].dto) = FixedDtoFields(res[q].dto)]_vars

\* C30 witness: a create call asking for another amount than the record of
\* its key holds has returned that record, with the stored amount and the
\* status SUCCEEDED a confirmation has given it since; another create call
\* asking for another currency has returned the same record.
ReplayReturnsOriginalWitness ==
  \E p, q \in Procs :
    /\ Done(p) /\ op[p] = "create" /\ res[p].kind = "ok"
    /\ res[p].dto.amount # arg[p].amount
    /\ res[p].dto.status = SUCCEEDED
    /\ store[res[p].dto.id].amount = res[p].dto.amount
    /\ Done(q) /\ op[q] = "create" /\ res[q].kind = "ok"
    /\ arg[q].currency # None
    /\ res[q].dto.currency = DEFAULT_CURRENCY
    /\ res[q].dto.id = res[p].dto.id
    /\ Len(store) = 1

(* ------------------------------ HTTP layer ------------------------------ *)
\* JSON values of a request body: a number is the fraction num/den (den > 0),
\* so that 12.5 is Num(25, 2); Str stands for any JSON string.
Num(n, d) == [type |-> "number", num |-> n, den |-> d]
Str == [type |-> "string", num |-> 0, den |-> 1]

\* z.number(), .int(), .positive(), .max(m)
zNumber(j) == j.type = "number"
zInt(j) == j.num % j.den = 0
zPositive(j) == j.num > 0
zMax(j, m) == j.num <= m * j.den

MAX_EXPIRY_SECONDS == 60 * 60

\* Mutant: a schema that lets any number through as the amount.
createSchemaAnyAmount(b) ==
  /\ b.amount # None /\ zNumber(b.amount[1])
  /\ \/ b.expiresInSeconds = None
     \/ LET e == b.expiresInSeconds[1] IN
          zNumber(e) /\ zInt(e) /\ zPositive(e) /\ zMax(e, MAX_EXPIRY_SECONDS)

\* Mutant: a schema without the upper bound on expiresInSeconds.
createSchemaNoMax(b) ==
  /\ b.amount # None
  /\ LET a == b.amount[1] IN zNumber(a) /\ zInt(a) /\ zPositive(a)
  /\ \/ b.expiresInSeconds = None
     \/ LET e == b.expiresInSeconds[1] IN
          zNumber(e) /\ zInt(e) /\ zPositive(e)

\* createSchema.parse(req.body) succeeds.
createSchema(b) ==
  /\ b.amount # None
  /\ LET a == b.amount[1] IN zNumber(a) /\ zInt(a) /\ zPositive(a)
  /\ b.currency = None \/ Len(b.currency[1]) = 3
  /\ b.method = None \/ b.method[1] \in {"CARD", "QR"}
  /\ \/ b.expiresInSeconds = None
     \/ LET e == b.expiresInSeconds[1] IN
          zNumber(e) /\ zInt(e) /\ zPositive(e) /\ zMax(e, MAX_EXPIRY_SECONDS)

\* The value of a JSON number that passed .int().
IntOf(j) == j.num \div j.den

\* Mutant: the header passed on as it came, empty or not.
HeaderKeyRaw(h) == h

\* req.header('Idempotency-Key') || undefined
HeaderKey(h) == IF Truthy(h) THEN h ELSE None

NoBody == [amount |-> None, currency |-> None, method |-> None, expiresInSeconds |-> None]
NoReq == [body |-> NoBody, header |-> None, param |-> <<>>]

\* What createSchema.parse throws.
ZodError == AppError("ZodError", "")

\* The status an AppError of the service carries.
AppErrorStatus(code) ==
  CASE code = "NOT_FOUND" -> 404
    [] code = "PAYMENT_ALREADY_FINAL" -> 409
    [] code \in {"PAYMENT_EXPIRED", "PAYMENT_UPDATE_BLOCKED"} -> 400
    [] OTHER -> 0

\* errorMiddleware: the response to an error passed to next(err).  Errors of
\* the store (ValidationError, E11000) carry no status: 500.
errorMiddleware(r) ==
  IF r.code = "ZodError" THEN [status |-> 400, code |-> "VALIDATION_ERROR"]
  ELSE IF r.code = "CastError" THEN [status |-> 400, code |-> "INVALID_ID"]
  ELSE IF AppErrorStatus(r.code) # 0
         THEN [status |-> AppErrorStatus(r.code), code |-> r.code]
         ELSE [status |-> 500, code |-> "INTERNAL_ERROR"]

\* POST /payment-intents: parse the body, read the header, call the service.
\* A body the schema refuses goes to next(err) without a call of the service.
HttpCreate(p, b, h) ==
  LET rq == [NoReq EXCEPT !.body = b, !.header = h] IN
  IF createSchema(b)
    THEN CreateCallWith(p, [NoArg EXCEPT !.req = Some(rq),
                                         !.amount = IntOf(b.amount[1]),
                                         !.currency = b.currency,
                                         !.method = b.method,
                                         !.expiresInSeconds =
                                            IF b.expiresInSeconds = None THEN None
                                            ELSE Some(IntOf(b.expiresInSeconds[1])),
                                         !.idempotencyKey = HeaderKey(h)])
    ELSE /\ Start(p, "create", NoArg, "done", ZodError)
         /\ UNCHANGED <<store, clock, ui, now, doc, confirmed, wins>>

(* --------------------- behaviours of the create endpoint ---------------- *)
\* Request bodies sent to POST /payment-intents: a body the schema accepts
\* and bodies that differ from it in the amount or in expiresInSeconds.
BaseBody == [NoBody EXCEPT !.amount = Some(Num(500, 1))]
BodyChoices ==
  {[BaseBody EXCEPT !.expiresInSeconds = e] :
     e \in {None, Some(Num(0, 1)), Some(Num(3, 2)), Some(Num(1, 1)),
            Some(Num(MAX_EXPIRY_SECONDS, 1)), Some(Num(MAX_EXPIRY_SECONDS + 1, 1))}}
  \cup {[BaseBody EXCEPT !.amount = a] :
          a \in {None, Some(Str), Some(Num(0, 1)), Some(Num(25, 2))}}
\* Idempotency-Key headers: absent, empty, present.
HeaderChoices == {None, Some(""), Some("k1")}

PostPaymentIntent(p) ==
  \E b \in BodyChoices, h \in HeaderChoices : HttpCreate(p, b, h)

NextHttpCreate ==
  \/ Tick
  \/ \E p \in Procs :
       \/ PostPaymentIntent(p)
       \/ CreateInsert(p)
       \/ CreateFindExisting(p)

SpecHttpCreate == Init /\ [][NextHttpCreate]_vars

\* The request worker p's call came from.
ReqOf(p) == arg[p].req[1]

\* The HTTP response to worker p's finished request.
ResponseTo(o, r) ==
  IF r.kind = "err" THEN errorMiddleware(r)
  ELSE IF r.kind = "response" THEN [status |-> 400, code |-> r.code]
  ELSE [status |-> IF o = "create" THEN 201 ELSE 200, code |-> ""]
HttpResponse(p) == ResponseTo(op[p], res[p])

(* ------------------- properties of the create endpoint ------------------ *)
\* Worker p is inside, or has finished, a create call that came from a
\* request without an Idempotency-Key (header absent or empty).
KeylessCreate(p) ==
  /\ op[p] = "create"
  /\ arg[p].req # None
  /\ ~Truthy(ReqOf(p).header)

\* C31: every create call the endpoint accepts from a request without an
\* Idempotency-Key (header absent or empty) ends in one step that appends
\* exactly one record, whose id differs from every id already stored and is
\* the id returned; the other records stay as they are and ids stay unique.
KeylessCreateInsertsOne ==
  [][\A p \in Procs :
       (pc[p] = "create_insert" /\ KeylessCreate(p) /\ pc'[p] # pc[p]) =>
         /\ pc'[p] = "done"
         /\ res'[p].kind = "ok"
         /\ Len(store') = Len(store) + 1
         /\ \A i \in DOMAIN store : store'[i] = store[i]
         /\ \A i \in DOMAIN store : store'[Len(store')]._id # store[i]._id
         /\ res'[p].dto.id = store'[Len(store')]._id
         /\ \A i, j \in DOMAIN store' : i # j => store'[i]._id # store'[j]._id]_vars

\* Two overlapping create calls, one from a request with an empty header and
\* one from a request without the header, have both returned, each with its
\* own new record.
KeylessCreateInsertsOneWitness ==
  \E p, q \in Procs :
    /\ p # q /\ Done(p) /\ Done(q)
    /\ KeylessCreate(p) /\ ReqOf(p).header = Some("")
    /\ KeylessCreate(q) /\ ReqOf(q).header = None
    /\ res[p].kind = "ok" /\ res[q].kind = "ok"
    /\ res[p].dto.id # res[q].dto.id
    /\ now[p] < res[q].dto.createdAt /\ now[q] < res[p].dto.createdAt
    /\ Len(store) = 2

\* The JSON value is a whole number.
Integer(j) == j.type = "number" /\ (j.num \div j.den) * j.den = j.num

\* The body has a positive integer amount and, if it has expiresInSeconds,
\* an integer in 1..3600.
WellFormedBody(b) ==
  /\ b.amount # None /\ Integer(b.amount[1]) /\ b.amount[1].num \div b.amount[1].den >= 1
  /\ \/ b.expiresInSeconds = None
     \/ LET e == b.expiresInSeconds[1] IN
          Integer(e) /\ e.num \div e.den \in 1..3600

\* The request bodies that are not well formed.
MalformedBodies == {b \in BodyChoices : ~WellFormedBody(b)}

\* The request of worker p was answered 400 VALIDATION_ERROR in this step
\* without a call of the service: no arguments, no time reading, no document,
\* no change of the store.
RejectedUncalled(p) ==
  /\ pc'[p] = "done"
  /\ errorMiddleware(res'[p]) = [status |-> 400, code |-> "VALIDATION_ERROR"]
  /\ arg'[p] = NoArg
  /\ UNCHANGED <<store, now, doc>>

\* C33: a request to the create endpoint whose body has no positive integer
\* amount, or has an expiresInSeconds that is not an integer in 1..3600, is
\* answered 400 VALIDATION_ERROR without a call of the service and without a
\* change of the store; and every record a create call inserts expires
\* between 1 and 3600 seconds after the time that call read on entry.
EndpointValidatesBody ==
  [][\A p \in Procs :
       /\ calls' = calls \/ RejectedUncalled(p) \/
            \A b \in MalformedBodies, h \in HeaderChoices : ~HttpCreate(p, b, h)
       /\ Inserts(p) =>
            LET d == store'[Len(store')] IN
              /\ now[p] + 1 * MsPerSecond <= d.expiresAt
              /\ d.expiresAt <= now[p] + 3600 * MsPerSecond]_vars

\* One request has been rejected by the schema, and another has inserted a
\* record that expires 3600 seconds after its call's time reading, while a
\* record with the shortest expiry, one second, is stored too.
EndpointValidatesBodyWitness ==
  \E p, q \in Procs :
    /\ Done(p) /\ res[p] = ZodError /\ HttpResponse(p).code = "VALIDATION_ERROR"
    /\ Done(q) /\ res[q].kind = "ok"
    /\ res[q].dto.expiresAt = now[q] + 3600 * MsPerSecond
    /\ \E i \in DOMAIN store : store[i].expiresAt <= store[i].createdAt + MsPerSecond

(* --------------------------- routes with :id ---------------------------- *)
\* A route parameter is a string, here a sequence of characters.  The record
\* with _id n has the ObjectId whose 24 hex digits spell n.
HexDigits ==
  <<"0", "1", "2", "3", "4", "5", "6", "7", "8", "9", "a", "b", "c", "d", "e", "f">>
OBJECT_ID_LENGTH == 24

HexSet == {HexDigits[k] : k \in DOMAIN HexDigits}
IsHex(c) == c \in HexSet
\* The value of a hex digit (0 for any other character; isValid lets none through).
HexValue(c) == IF IsHex(c) THEN (CHOOSE k \in DOMAIN HexDigits : HexDigits[k] = c) - 1 ELSE 0

\* Mutant: a test of the length alone.
isValidLengthOnly(v) == Len(v) = OBJECT_ID_LENGTH

\* Mutant: a test that accepts everything.
isValidAlways(v) == TRUE

\* mongoose.Types.ObjectId.isValid on a string: 24 hex digits.  (Strings of 12
\* characters, which the driver also casts, are not among the parameters.)
isValid(v) == Len(v) = OBJECT_ID_LENGTH /\ \A i \in DOMAIN v : IsHex(v[i])

\* The number the first n characters of a valid parameter spell.
RECURSIVE HexPrefix(_, _)
HexPrefix(v, n) ==
  IF n = 0 THEN 0 ELSE 16 * HexPrefix(v, n - 1) + HexValue(v[n])
HexNumber(v) == HexPrefix(v, Len(v))

\* The ObjectId of record n, as the string a client sends.
Oid(n) == [i \in 1..OBJECT_ID_LENGTH |-> IF i = OBJECT_ID_LENGTH THEN HexDigits[n + 1] ELSE "0"]

\* res.status(400).json({ error: { code } }) sent by a middleware.
Rejected(code) == [NoRes EXCEPT !.kind = "response", !.code = code]

\* validateObjectIdParam('id'): an invalid parameter is answered at once and
\* next() is not called.
RejectInvalidId(p, o) ==
  /\ Start(p, o, NoArg, "done", Rejected("INVALID_ID"))
  /\ UNCHANGED <<store, clock, ui, now, doc, confirmed, wins>>

\* GET /payment-intents/:id
HttpGet(p, v) ==
  IF isValid(v) THEN GetCall(p, HexNumber(v)) ELSE RejectInvalidId(p, "get")

\* POST /payment-intents/:id/confirm, /fail (with the body's reason), /cancel
HttpTransition(p, o, v, r) ==
  IF isValid(v)
    THEN TransitionBegin(p, o, [NoArg EXCEPT !.id = HexNumber(v), !.reason = r])
    ELSE RejectInvalidId(p, o)

\* Parameters sent: the id of the first record, a short string, and 24
\* characters of which the last is no hex digit.
ParamChoices ==
  {Oid(1), <<"a", "b", "c">>, [Oid(1) EXCEPT ![OBJECT_ID_LENGTH] = "g"]}

GetPaymentIntent(p) == \E v \in ParamChoices : HttpGet(p, v)
PostConfirm(p) == \E v \in ParamChoices : HttpTransition(p, "confirm", v, None)
PostFail(p) == \E v \in ParamChoices, r \in ReasonChoices : HttpTransition(p, "fail", v, r)
PostCancel(p) == \E v \in ParamChoices : HttpTransition(p, "cancel", v, None)

NextHttpId ==
  \/ Tick
  \/ \E p \in Procs :
       \/ CreateBegin(p)
       \/ CreateInsert(p)
       \/ GetPaymentIntent(p)
       \/ GetCheck(p)
       \/ GetSave(p)
       \/ PostConfirm(p)
       \/ ConfirmUpdate(p)
       \/ PostFail(p)
       \/ FailUpdate(p)
       \/ PostCancel(p)
       \/ CancelUpdate(p)
       \/ ExplainGuardFailure(p)

SpecHttpId == Init /\ [][NextHttpId]_vars

(* -------------------- properties of the routes with :id ----------------- *)
\* The parameters that are not 24 hex digits.
InvalidParams ==
  {v \in ParamChoices :
     Len(v) # 24 \/ \E i \in DOMAIN v : v[i] \notin HexSet}

\* A request of operation o with parameter v (and reason r, for fail).
HttpById(p, o, v, r) ==
  IF o = "get" THEN HttpGet(p, v) ELSE HttpTransition(p, o, v, r)

\* The request of worker p was answered 400 INVALID_ID in this step and
\* neither controller nor service ran: no arguments, no time reading, no
\* document loaded, no change of the store.
RejectedByMiddleware(p) ==
  /\ pc'[p] = "done"
  /\ ResponseTo(op'[p], res'[p]) = [status |-> 400, code |-> "INVALID_ID"]
  /\ arg'[p] = NoArg
  /\ UNCHANGED <<store, now, doc, confirmed, wins>>

\* C34: a get, confirm, fail or cancel request whose id is not a valid
\* ObjectId is answered 400 INVALID_ID by the route middleware, without a
\* call of the controller or the service and without a change of the store.
InvalidIdRejected ==
  [][\A p \in Procs :
       calls' = calls \/ RejectedByMiddleware(p) \/
         \A o \in IdOps, v \in InvalidParams, r \in ReasonChoices :
            ~HttpById(p, o, v, r)]_vars

\* A confirm request and a get request have both been answered INVALID_ID
\* while the first record is stored and still PENDING.
InvalidIdRejectedWitness ==
  \E p, q \in Procs :
    /\ Done(p) /\ op[p] = "confirm" /\ HttpResponse(p) = [status |-> 400, code |-> "INVALID_ID"]
    /\ Done(q) /\ op[q] = "get" /\ HttpResponse(q) = [status |-> 400, code |-> "INVALID_ID"]
    /\ Exists(1) /\ store[1].status = PENDING

(* ------------------------------ termination ----------------------------- *)
\* Calls on one record: creates under one key (the second create replays the
\* first), and get, confirm, fail, cancel and list, each store call of which
\* returns: a worker inside a call is not kept from taking its next step.
FirstId == 1
CreateFirst(p) == \E am \in Amounts, e \in ExpiresInChoices : CreateCall(p, am, e, ReplayKey)
GetFirst(p) == GetCall(p, FirstId)
ConfirmFirst(p) == TransitionBegin(p, "confirm", [NoArg EXCEPT !.id = FirstId])
FailFirst(p) == TransitionBegin(p, "fail", [NoArg EXCEPT !.id = FirstId])
CancelFirst(p) == TransitionBegin(p, "cancel", [NoArg EXCEPT !.id = FirstId])

\* The steps of a call after its start: each is one call of the store, or
\* Get's decision between returning and saving.
Continue(p) ==
  \/ CreateInsert(p)
  \/ CreateFindExisting(p)
  \/ GetCheck(p)
  \/ GetSave(p)
  \/ ConfirmUpdate(p)
  \/ FailUpdate(p)
  \/ CancelUpdate(p)
  \/ ExplainGuardFailure(p)
  \/ ListSweep(p)
  \/ ListFind(p)

NextTerm ==
  \/ Tick
  \/ \E p \in Procs :
       \/ CreateFirst(p)
       \/ GetFirst(p)
       \/ ConfirmFirst(p)
       \/ FailFirst(p)
       \/ CancelFirst(p)
       \/ ListBegin(p)
       \/ Continue(p)

SpecTerm == Init /\ [][NextTerm]_vars /\ \A p \in Procs : WF_vars(Continue(p))

\* The store calls of each operation, as steps <<operation, from, to>> of a
\* worker: a call of the store is issued at `from` and has returned at `to`.
\* Get's load is issued when the call starts; get_check is its decision.
CallSteps ==
  {<<"create", "create_insert", "create_find">>,
   <<"create", "create_insert", "done">>,
   <<"create", "create_find", "done">>,
   <<"get", "get_check", "get_save">>,
   <<"get", "get_check", "done">>,
   <<"get", "get_save", "done">>,
   <<"list", "list_sweep", "list_find">>,
   <<"list", "list_find", "done">>}
  \cup {<<o, "update", "explain">> : o \in TransitionOps}
  \cup {<<o, "update", "done">> : o \in TransitionOps}
  \cup {<<o, "explain", "done">> : o \in TransitionOps}

\* Where a call of each operation starts; a Get whose load finds nothing
\* returns at once.
EntrySteps ==
  {<<"create", "create_insert">>, <<"get", "get_check">>, <<"get", "done">>,
   <<"list", "list_sweep">>}
  \cup {<<o, "update">> : o \in TransitionOps}

\* Worker p is inside a call.
Busy(p) == ~Free(p)

\* Every step of a call moves forward along CallSteps, so no store call is
\* issued twice, and a call that has returned holds a result or an error.
NoRetry ==
  \A p \in Procs :
    /\ (Busy(p) /\ Steps(p)) => <<op[p], pc[p], pc'[p]>> \in CallSteps
    /\ (Free(p) /\ Steps(p)) => <<op'[p], pc'[p]>> \in EntrySteps
    /\ pc'[p] = "done" => res'[p].kind \in {"ok", "list", "err"}

\* C32: every operation terminates without retrying.  A guarded transition
\* issues one conditional update and at most one re-fetch, create one insert
\* and at most one lookup, get one load and at most one save, list one bulk
\* update and one query; and, each store call returning, every call returns.
TerminatesWithoutRetry ==
  /\ [][NoRetry]_vars
  /\ \A p \in Procs : Busy(p) ~> Done(p)

\* A create call has returned after its insert and its lookup while a
\* transition has returned after its update and its re-fetch.
TerminatesWithoutRetryWitness ==
  \E p, q \in Procs :
    /\ Done(p) /\ op[p] = "create" /\ res[p].kind = "ok"
    /\ res[p].dto.createdAt < now[p]
    /\ Done(q) /\ op[q] \in TransitionOps /\ res[q].kind = "err"

(* --------------------------- the payment screen ------------------------- *)
\* The POS app's PaymentScreen for one intent.  The backend is seen through
\* `srv`, the status it holds for the intent, which it answers requests with.
backend == <<store, clock, pc, op, arg, now, doc, res, pre, confirmed, wins, calls>>

\* The longest `net` the user's own requests (Retry, Approve, Decline,
\* Cancel) may extend.
MaxRequests == 2

POLL_BUSY_DELAY == 250
POLL_DELAY == 1000

\* isTerminal = useMemo(...) of the displayed intent's status.
IsTerminalStatus(s) == s \in TERMINAL_STATUSES

\* A request in flight: `cancelled` is the flag of the polling effect that
\* issued it, `reply` the answer on its way back ("none": not yet answered).
Request(kind) == [kind |-> kind, cancelled |-> FALSE, reply |-> "none"]

Without(s, i) == SubSeq(s, 1, i - 1) \o SubSeq(s, i + 1, Len(s))

\* inFlightRef.current = true; getPaymentIntent(id) is called.
IssuePoll(u) ==
  [u EXCEPT !.inFlightRef = TRUE, !.net = Append(@, Request("poll")),
            !.pollBit = 1 - @]

\* Mutant: a tick that polls whether or not a poll is in flight.
tickIgnoresInFlight(u) ==
  IF u.isTerminal THEN u ELSE IssuePoll(u)

\* Mutant: a tick that drops out when a poll is in flight.
tickGivesUp(u) ==
  IF u.isTerminal THEN u
  ELSE IF u.inFlightRef THEN u
  ELSE IssuePoll(u)

\* tick() of the current (not cancelled) polling effect, up to its await.
tick(u) ==
  IF u.isTerminal THEN u
  ELSE IF u.inFlightRef THEN [u EXCEPT !.pollRef = POLL_BUSY_DELAY]
  ELSE IssuePoll(u)

\* The polling effect's dependencies changed in the last render.
EffectPending(u) == u.mounted /\ u.isTerminal # IsTerminalStatus(u.intent)

\* Cleanup of the old polling effect (cancelled = true, clearTimeout), then
\* the new effect with the rendered isTerminal, which calls tick().
RunEffect(u) ==
  tick([u EXCEPT !.net = [i \in DOMAIN @ |->
                            IF @[i].kind = "poll" THEN [@[i] EXCEPT !.cancelled = TRUE]
                            ELSE @[i]],
                 !.pollRef = 0,
                 !.isTerminal = IsTerminalStatus(u.intent)])

\* React runs the effects of the last render before it renders again.
Flush(u) == IF EffectPending(u) THEN RunEffect(u) ELSE u

\* Mutant: setIntent that keeps a terminal status once displayed.
SetIntentKeepsTerminal(u, s) ==
  IF ~u.mounted THEN u
  ELSE LET f == Flush(u) IN
       IF IsTerminalStatus(f.intent) THEN [f EXCEPT !.errorMsg = FALSE]
       ELSE [f EXCEPT !.intent = s, !.errorMsg = FALSE,
                      !.everTerminal = @ \/ IsTerminalStatus(s)]

\* setIntent(dto); setErrorMsg(null) and the render that follows.
SetIntent(u, s) ==
  IF ~u.mounted THEN u
  ELSE [Flush(u) EXCEPT !.intent = s, !.errorMsg = FALSE,
                        !.everTerminal = @ \/ IsTerminalStatus(s)]

\* setErrorMsg(message) and the render that follows.
SetError(u) ==
  IF ~u.mounted THEN u ELSE [Flush(u) EXCEPT !.errorMsg = TRUE]

\* The screen is opened: first render with intent null, then the effects:
\* loadOnce() and the polling effect's first tick().
Mount ==
  /\ ~ui.mounted /\ ui.net = <<>> /\ ui.intent = "none"
  /\ ui' = tick([ui EXCEPT !.mounted = TRUE, !.net = Append(@, Request("load"))])
  /\ UNCHANGED backend

\* The screen is left: the polling effect's cleanup.
Unmount ==
  /\ ui.mounted
  /\ ui' = [ui EXCEPT !.mounted = FALSE, !.pollRef = 0,
                      !.net = [i \in DOMAIN @ |->
                                 IF @[i].kind = "poll" THEN [@[i] EXCEPT !.cancelled = TRUE]
                                 ELSE @[i]]]
  /\ UNCHANGED backend

\* The backend answers request i: a GET with the status it holds; a confirm,
\* fail or cancel with the new status if the intent is PENDING, else an error.
ServerReplies(i) ==
  /\ i \in DOMAIN ui.net
  /\ ui.net[i].reply = "none"
  /\ LET k == ui.net[i].kind IN
     IF k \in {"load", "poll"}
       THEN ui' = [ui EXCEPT !.net[i].reply = ui.srv]
       ELSE IF ui.srv = PENDING
         THEN ui' = [ui EXCEPT !.net[i].reply = TargetOf(k), !.srv = TargetOf(k)]
         ELSE ui' = [ui EXCEPT !.net[i].reply = "error"]
  /\ UNCHANGED backend

\* The request or its answer is lost: the fetch rejects.
RequestFails(i) ==
  /\ i \in DOMAIN ui.net
  /\ ui.net[i].reply = "none"
  /\ ui' = [ui EXCEPT !.net[i].reply = "error"]
  /\ UNCHANGED backend

\* The intent ends at the backend without this screen: the customer page
\* confirms it, or it expires.
ServerEnds(s) ==
  /\ ui.mounted
  /\ ui.srv = PENDING
  /\ ui' = [ui EXCEPT !.srv = s]
  /\ UNCHANGED backend

\* loadOnce() resumes after its await.
DeliverLoad(i) ==
  /\ i \in DOMAIN ui.net
  /\ ui.net[i].kind = "load" /\ ui.net[i].reply # "none"
  /\ LET m == ui.net[i]
         u == [ui EXCEPT !.net = Without(@, i)]
         v == IF m.reply = "error" THEN SetError(u) ELSE SetIntent(u, m.reply) IN
     ui' = IF v.mounted THEN [v EXCEPT !.loading = FALSE] ELSE v
  /\ UNCHANGED backend

\* tick() resumes after its await: the state is set unless the effect was
\* cancelled; finally inFlightRef is cleared and, unless cancelled, the next
\* tick is scheduled.
DeliverPoll(i) ==
  /\ i \in DOMAIN ui.net
  /\ ui.net[i].kind = "poll" /\ ui.net[i].reply # "none"
  /\ LET m == ui.net[i]
         u == [ui EXCEPT !.net = Without(@, i),
                         !.inFlightRef = FALSE,
                         !.pollRef = IF m.cancelled THEN @ ELSE POLL_DELAY] IN
     ui' = IF m.cancelled THEN u
           ELSE IF m.reply = "error" THEN SetError(u) ELSE SetIntent(u, m.reply)
  /\ UNCHANGED backend

\* The pending timer fires: tick() of the current effect.
TimerFires ==
  /\ ui.pollRef # 0
  /\ ui' = tick([ui EXCEPT !.pollRef = 0])
  /\ UNCHANGED backend

\* React runs the polling effect again after a render that changed isTerminal.
FlushEffects ==
  /\ EffectPending(ui)
  /\ ui' = RunEffect(ui)
  /\ UNCHANGED backend

\* Approve, Decline or Cancel is pressed (the buttons show while the
\* displayed intent is not terminal, and are disabled while acting or
\* without an intent): setActing(true), then the request.
Press(k) ==
  /\ ui.mounted
  /\ ui.intent # "none" /\ ~IsTerminalStatus(ui.intent) /\ ~ui.acting
  /\ Len(ui.net) < MaxRequests
  /\ ui' = [Flush(ui) EXCEPT !.acting = TRUE, !.net = Append(@, Request(k))]
  /\ UNCHANGED backend

\* onSimulateSuccess / the Alert's onPress resumes after its await.
DeliverAction(i) ==
  /\ i \in DOMAIN ui.net
  /\ ui.net[i].kind \in TransitionOps /\ ui.net[i].reply # "none"
  /\ LET m == ui.net[i]
         u == [ui EXCEPT !.net = Without(@, i)]
         v == IF m.reply = "error" THEN Flush(u) ELSE SetIntent(u, m.reply) IN
     ui' = IF v.mounted THEN [v EXCEPT !.acting = FALSE] ELSE v
  /\ UNCHANGED backend

\* Retry is pressed (shown with the error box, once loading is over).
PressRetry ==
  /\ ui.mounted /\ ~ui.loading /\ ui.errorMsg
  /\ Len(ui.net) < MaxRequests
  /\ ui' = [ui EXCEPT !.net = Append(@, Request("load"))]
  /\ UNCHANGED backend

NextScreen ==
  \/ Mount
  \/ Unmount
  \/ \E i \in 1..(MaxRequests + 1) :
       \/ ServerReplies(i)
       \/ RequestFails(i)
       \/ DeliverLoad(i)
       \/ DeliverPoll(i)
       \/ DeliverAction(i)
  \/ \E s \in {SUCCEEDED, EXPIRED} : ServerEnds(s)
  \/ TimerFires
  \/ FlushEffects
  \/ \E k \in TransitionOps : Press(k)
  \/ PressRetry

SpecScreen == Init /\ [][NextScreen]_vars

(* --------------------- properties of the payment screen ----------------- *)
\* A polling request in flight is answered and its answer handed to tick().
PollProgress ==
  \E i \in 1..(MaxRequests + 1) :
    /\ i \in DOMAIN ui.net /\ ui.net[i].kind = "poll"
    /\ (ServerReplies(i) \/ DeliverPoll(i))

\* The screen with a network that answers every polling request, timers that
\* fire and effects that React runs.
SpecScreenLive ==
  /\ Init /\ [][NextScreen]_vars
  /\ WF_vars(PollProgress) /\ WF_vars(TimerFires) /\ WF_vars(FlushEffects)

\* A polling request is issued in this step.
PollIssued == ui'.pollBit # ui.pollBit

\* The screen is mounted and displays PENDING.
DisplaysPending == ui.mounted /\ ui.intent = PENDING

\* No polling request is issued once a terminal status has been displayed.
NoPollAfterTerminal == [][PollIssued => ~ui.everTerminal]_vars

\* While the screen is mounted and displays PENDING, another polling request
\* is eventually issued.
PollsWhilePending ==
  \A b \in {0, 1} :
    (DisplaysPending /\ ui.pollBit = b) ~> (~DisplaysPending \/ ui.pollBit # b)

\* C35: the screen polls until terminal and then stops: no polling request is
\* issued after a terminal status has been displayed, and while the screen is
\* mounted and displays PENDING another polling request is eventually issued.
PollsUntilTerminal == NoPollAfterTerminal /\ PollsWhilePending

\* C36: once a terminal status is displayed, the displayed status never goes
\* back to PENDING, whatever the order in which the answers to the initial
\* load, the polls, Retry and the actions arrive.
DisplayedTerminalStays ==
  [][~(IsTerminalStatus(ui.intent) /\ ui'.intent = PENDING)]_vars

\* The polling requests in flight.
PollsInFlight(u) == {i \in DOMAIN u.net : u.net[i].kind = "poll"}

\* C37: at most one polling request is in flight at any time, also after the
\* polling effect has been run again; a tick that finds inFlightRef set,
\* from a timer or at the start of an effect, issues no request and sets a
\* timer of 250 ms.
OnePollInFlight ==
  /\ [](Cardinality(PollsInFlight(ui)) <= 1)
  /\ [][/\ (TimerFires /\ ui.inFlightRef) =>
              ~PollIssued /\ ui'.pollRef = POLL_BUSY_DELAY
        /\ (FlushEffects /\ ui.inFlightRef /\ ~IsTerminalStatus(ui.intent)) =>
              ~PollIssued /\ ui'.pollRef = POLL_BUSY_DELAY]_vars

\* The polling effect has been run again while the request of a cancelled
\* effect is still in flight: its tick found inFlightRef set and waits 250 ms.
OnePollInFlightWitness ==
  /\ ui.mounted /\ ~ui.isTerminal
  /\ ui.inFlightRef /\ ui.pollRef = POLL_BUSY_DELAY
  /\ \E i \in PollsInFlight(ui) : ui.net[i].cancelled

(* -------------------------- the New Payment screen ---------------------- *)
\* The quick-amount taps of a behaviour.
MaxQuickTaps == 2
MAX_DIGITS == 9

DecimalDigits == <<"0", "1", "2", "3", "4", "5", "6", "7", "8", "9">>
DigitValue(c) == (CHOOSE k \in DOMAIN DecimalDigits : DecimalDigits[k] = c) - 1

\* s.slice(0, n)
Slice(s, n) == SubSeq(s, 1, Min(n, Len(s)))

\* Number(s) of a string of digits
RECURSIVE NumberOf(_)
NumberOf(s) ==
  IF s = <<>> THEN 0
  ELSE 10 * NumberOf(SubSeq(s, 1, Len(s) - 1)) + DigitValue(s[Len(s)])

\* String(n) of a non-negative integer
RECURSIVE StringOf(_)
StringOf(n) ==
  IF n < 10 THEN <<DecimalDigits[n + 1]>>
  ELSE StringOf(n \div 10) \o <<DecimalDigits[(n % 10) + 1]>>

\* s.replace(/^0+(?=\d)/, ""): leading zeros that a digit follows are dropped.
RECURSIVE StripLeadingZeros(_)
StripLeadingZeros(s) ==
  IF Len(s) >= 2 /\ s[1] = "0" THEN StripLeadingZeros(Tail(s)) ELSE s

digitsToPence(digits) ==
  IF digits = <<>> THEN 0 ELSE NumberOf(Slice(digits, MAX_DIGITS))

\* The text of the amount: sign, pounds, and pennies padded to two digits.
formatGBPFromPence(pence) ==
  LET abs == IF pence < 0 THEN -pence ELSE pence IN
  [sign |-> IF pence < 0 THEN "-" ELSE "",
   pounds |-> StringOf(abs \div 100),
   pennies |-> IF abs % 100 < 10 THEN <<"0">> \o StringOf(abs % 100)
               ELSE StringOf(abs % 100)]

addPence(digits, add) == StringOf(digitsToPence(digits) + add)

appendDigit(digits, d) == Slice(StripLeadingZeros(digits \o <<d>>), MAX_DIGITS)

backspace(digits) ==
  IF Len(digits) <= 1 THEN <<>> ELSE SubSeq(digits, 1, Len(digits) - 1)

\* pence and display of the render.
Pence == digitsToPence(ui.digits)
Display == formatGBPFromPence(Pence)

\* The keypad responds while no create call is awaited.
KeypadOpen == ui.sent = None /\ ~ui.mounted

TapDigit(d) ==
  /\ KeypadOpen
  /\ ui' = [ui EXCEPT !.digits = appendDigit(@, d)]
  /\ UNCHANGED backend

TapClear ==
  /\ KeypadOpen
  /\ ui' = [ui EXCEPT !.digits = <<>>]
  /\ UNCHANGED backend

TapBackspace ==
  /\ KeypadOpen
  /\ ui' = [ui EXCEPT !.digits = backspace(@)]
  /\ UNCHANGED backend

TapQuick(add) ==
  /\ KeypadOpen
  /\ ui.quickTaps < MaxQuickTaps
  /\ ui' = [ui EXCEPT !.digits = addPence(@, add), !.quickTaps = @ + 1]
  /\ UNCHANGED backend

\* handleCreatePayment up to its await: an amount of 0 is refused with an
\* alert, any other is sent.
TapCreate ==
  /\ KeypadOpen
  /\ ui' = IF Pence <= 0 THEN ui ELSE [ui EXCEPT !.sent = Some(Pence)]
  /\ UNCHANGED backend

\* The create call fails: alert, and the screen stays.  (When it succeeds
\* the app leaves for the payment screen.)
CreateFailed ==
  /\ ui.sent # None /\ ~ui.mounted
  /\ ui' = [ui EXCEPT !.sent = None]
  /\ UNCHANGED backend

\* The digit keys pressed, and the quick amounts.
DigitKeys == {"0", "9"}
QuickAmounts == {500, 1000, 2000}

NextKeypad ==
  \/ \E d \in DigitKeys : TapDigit(d)
  \/ TapClear
  \/ TapBackspace
  \/ \E a \in QuickAmounts : TapQuick(a)
  \/ TapCreate
  \/ CreateFailed

SpecKeypad == Init /\ [][NextKeypad]_vars

(* -------------------- properties of the New Payment screen -------------- *)
\* The amount a display text reads as, in pence.
DisplayedPence(t) == 100 * NumberOf(t.pounds) + NumberOf(t.pennies)

\* A quick-amount tap makes the amount the previous amount plus its pence.
QuickAddsExactly ==
  \A a \in QuickAmounts :
    TapQuick(a) => digitsToPence(ui'.digits) = digitsToPence(ui.digits) + a

\* The amount sent to createPaymentIntent is the amount displayed.
SendsDisplayed ==
  (TapCreate /\ ui'.sent # None) =>
     /\ Display.sign = ""
     /\ ui'.sent = Some(DisplayedPence(Display))

\* A digit key leaves at most 9 digits.
KeypadKeepsNineDigits ==
  \A d \in DigitKeys : TapDigit(d) => Len(ui'.digits) <= MAX_DIGITS

\* C38: for every reachable digits state a quick-amount tap makes the entered
\* amount exactly the previous amount plus that many pence, the amount sent
\* to CreateIntent is the amount displayed, and keypad entry keeps the amount
\* at no more than 9 digits.
KeypadAmountExact ==
  [][QuickAddsExactly /\ SendsDisplayed /\ KeypadKeepsNineDigits]_vars

====
